---- MODULE Spec2Model ----
(***************************************************************************)
(* Model of the schema-matching and validation engine of core/validator.py.*)
(*                                                                         *)
(* Strings are sequences of one-character strings, so that lower(),        *)
(* replace(), the regular expressions of the validation helpers and        *)
(* Levenshtein.ratio are computed, not assumed.  Percentages and scores    *)
(* are exact rationals [n, d] in lowest terms (the code uses floats).      *)
(***************************************************************************)
EXTENDS Integers, Sequences, FiniteSets, TLC

VARIABLES
    schema,          \* the schema handed to match_schema / validate_row
    columns,         \* ordered column names of the imported table
    data,            \* rows of the imported table: Seq([column -> value])
    pc,              \* position inside the run
    fi,              \* index of the schema field the current loop is at
    matches_found,   \* match_schema: matches_found of the second pass
    field_matches,   \* match_schema: field_matches, in insertion order
    matched_columns, \* match_schema: matched_columns
    matched_count,   \* match_schema: matched_count
    match_score,     \* match_schema: returned match_score
    ri,              \* validate_data: index of the row being validated
    row_validations, \* validate_data: row_validations
    report,          \* validate_data: validation_results
    value_field,     \* the field definition a value check runs with
    value_summary,   \* result of validate_field_values for the column
    patch_summary,   \* result of the validate_field_values of validator_patch.py
    value_verdicts,  \* results of validate_single_value, one per row
    registry,        \* the schemas directory: whether it exists, and its files
    SCHEMA_CACHE,    \* load_schemas: the module-level _SCHEMA_CACHE
    existing_mapping,\* the mapping file of the session, {} when there is none
    session_status,  \* what update_session_status recorded last
    calls,           \* number of validate_data calls made so far
    mapping_info,    \* what generate_mapping_file returned last
    passes           \* the calls of match_schema that run side by side

vars == <<schema, columns, data, pc, fi, matches_found, field_matches,
          matched_columns, matched_count, match_score, ri, row_validations,
          report, value_field, value_summary, patch_summary, value_verdicts, registry,
          SCHEMA_CACHE, existing_mapping, session_status, calls, mapping_info, passes>>

-----------------------------------------------------------------------------
(* Bounds of the model *)

MaxFields == 2

MaxColumns == 2

\* a table has at most MaxCells values: rows times columns
MaxCells == 2

MaxValues == 2

MaxFiles == 2

MaxCalls == 2

-----------------------------------------------------------------------------
(* Characters and strings *)

UpperLetters == <<"A","B","C","D","E","F","G","H","I","J","K","L","M",
                  "N","O","P","Q","R","S","T","U","V","W","X","Y","Z">>

LowerLetters == <<"a","b","c","d","e","f","g","h","i","j","k","l","m",
                  "n","o","p","q","r","s","t","u","v","w","x","y","z">>

Digits == {"0","1","2","3","4","5","6","7","8","9"}

Whitespace == {" ", "\t", "\n", "\r", "\f"}

Range(s) == {s[i] : i \in DOMAIN s}

\* str.lower() on one character
LowerChar(c) ==
    IF \E i \in DOMAIN UpperLetters : UpperLetters[i] = c
    THEN LowerLetters[CHOOSE i \in DOMAIN UpperLetters : UpperLetters[i] = c]
    ELSE c

\* str.lower()
Lower(s) == [i \in DOMAIN s |-> LowerChar(s[i])]

\* re.sub(r'[chars]', '', s) and str.replace(c, "")
Strip(s, chars) == SelectSeq(s, LAMBDA c : c \notin chars)

\* str.replace(a, b) for single characters
ReplaceChar(s, a, b) == [i \in DOMAIN s |-> IF s[i] = a THEN b ELSE s[i]]

\* str.startswith(prefix)
StartsWith(s, prefix) ==
    /\ Len(prefix) <= Len(s)
    /\ SubSeq(s, 1, Len(prefix)) = prefix

\* "x in list" for a Python list given as a sequence
InSeq(x, s) == \E i \in DOMAIN s : s[i] = x

-----------------------------------------------------------------------------
(* Exact rationals for the float arithmetic of the code *)

RECURSIVE Gcd(_, _)
Gcd(a, b) == IF b = 0 THEN a ELSE Gcd(b, a % b)

Rat(n, d) ==
    LET g == Gcd(n, d)
    IN  IF n = 0 THEN [n |-> 0, d |-> 1] ELSE [n |-> n \div g, d |-> d \div g]

RatInt(k) == [n |-> k, d |-> 1]

RatLt(a, b) == a.n * b.d < b.n * a.d

RatLe(a, b) == a.n * b.d <= b.n * a.d

RatGt(a, b) == RatLt(b, a)

\* a * p + b * q with the weights taken as they are written
RatSum(a, p, b, q) == Rat(a.n * p * b.d + b.n * q * a.d, a.d * b.d)

\* a * p + b * q for integer percentages-of-ten weights p, q (0.3 -> 3, 0.7 -> 7)
RatMix(a, p, b, q) == Rat(a.n * p * b.d + b.n * q * a.d, 10 * a.d * b.d)

-----------------------------------------------------------------------------
(* Levenshtein.ratio: (len(a) + len(b) - dist) / (len(a) + len(b)), where     *)
(* dist is the edit distance in which a substitution costs 2.              *)

Min2(a, b) == IF a < b THEN a ELSE b

\* One row of the dynamic programme: prev is the row for the prefix of s
\* before character c, indexed 1..Len(t)+1 for the prefixes of t.
RECURSIVE LevRow(_, _, _, _)
LevRow(prev, c, t, acc) ==
    LET j == Len(acc)
    IN  IF j = Len(t) + 1 THEN acc
        ELSE LET sub == IF t[j] = c THEN prev[j] ELSE prev[j] + 2
                 del == prev[j + 1] + 1
                 ins == acc[j] + 1
             IN  LevRow(prev, c, t, Append(acc, Min2(sub, Min2(del, ins))))

RECURSIVE LevRows(_, _, _, _)
LevRows(s, t, i, prev) ==
    IF i > Len(s) THEN prev[Len(t) + 1]
    ELSE LevRows(s, t, i + 1, LevRow(prev, s[i], t, <<prev[1] + 1>>))

LevDist(s, t) == LevRows(s, t, 1, [j \in 1..(Len(t) + 1) |-> j - 1])

\* lev.ratio(s, t) * 100
LevRatio100(s, t) ==
    LET lensum == Len(s) + Len(t)
    IN  IF lensum = 0 THEN RatInt(100)
        ELSE Rat((lensum - LevDist(s, t)) * 100, lensum)

-----------------------------------------------------------------------------
(* Python dictionaries: a record whose DOMAIN is the set of keys present *)

\* dict.get(key, default)
Get(d, key, default) == IF key \in DOMAIN d THEN d[key] ELSE default

-----------------------------------------------------------------------------
(* Validation helpers for specific field types *)

AllIn(s, chars) == \A i \in DOMAIN s : s[i] \in chars

\* validate_sa_id_number: 13 digits once whitespace and hyphens are removed
validate_sa_id_number(value) ==
    LET v == Strip(value, Whitespace \cup {"-"})
    IN  Len(v) = 13 /\ AllIn(v, Digits)

\* validate_bank_account_number: 6 to 12 digits or asterisks
validate_bank_account_number(value) ==
    LET v == Strip(value, Whitespace \cup {"-", ","})
    IN  Len(v) >= 6 /\ Len(v) <= 12 /\ AllIn(v, Digits \cup {"*"})

\* validate_postal_code: 4 to 10 digits or hyphens
validate_postal_code(value) ==
    LET v == Strip(value, Whitespace)
    IN  Len(v) >= 4 /\ Len(v) <= 10 /\ AllIn(v, Digits \cup {"-"})

\* index of the first character of s that is in chars, 0 when there is none
FirstIndex(s, chars) ==
    IF \E i \in DOMAIN s : s[i] \in chars
    THEN CHOOSE i \in DOMAIN s : s[i] \in chars /\ \A j \in 1..(i - 1) : s[j] \notin chars
    ELSE 0

Unsigned(s) == IF Len(s) > 0 /\ s[1] \in {"+", "-"} THEN Tail(s) ELSE s

\* digitpart of Python's float grammar: digits, single underscores between them
IsDigitPart(s) ==
    /\ Len(s) > 0
    /\ AllIn(s, Digits \cup {"_"})
    /\ s[1] # "_" /\ s[Len(s)] # "_"
    /\ \A i \in 1..(Len(s) - 1) : ~(s[i] = "_" /\ s[i + 1] = "_")

FloatWords == { <<"i","n","f">>, <<"i","n","f","i","n","i","t","y">>, <<"n","a","n">> }

\* the text before and after the first character of s that is in chars
Before(s, i) == IF i = 0 THEN s ELSE SubSeq(s, 1, i - 1)

After(s, i) == IF i = 0 THEN <<>> ELSE SubSeq(s, i + 1, Len(s))

Mantissa(u) == Before(u, FirstIndex(u, {"e", "E"}))

Exponent(u) == After(u, FirstIndex(u, {"e", "E"}))

HasExponent(u) == FirstIndex(u, {"e", "E"}) > 0

IntPart(mant) == Before(mant, FirstIndex(mant, {"."}))

FracPart(mant) == After(mant, FirstIndex(mant, {"."}))

HasDot(mant) == FirstIndex(mant, {"."}) > 0

\* digitpart [. [digitpart]] or . digitpart
IsPointFloat(ip, fp, dot) ==
    \/ ~dot /\ IsDigitPart(ip)
    \/ dot /\ IsDigitPart(ip) /\ (fp = <<>> \/ IsDigitPart(fp))
    \/ dot /\ ip = <<>> /\ IsDigitPart(fp)

IsMantissa(mant) == IsPointFloat(IntPart(mant), FracPart(mant), HasDot(mant))

IsFloatNumber(u) ==
    /\ ~HasExponent(u) \/ IsDigitPart(Unsigned(Exponent(u)))
    /\ IsMantissa(Mantissa(u))

\* float(s) does not raise ValueError
FloatParses(s) ==
    LET u == Unsigned(s)
    IN  Lower(u) \in FloatWords \/ IsFloatNumber(u)

\* validate_decimal_amount: float() accepts what is left of the value
validate_decimal_amount(value) ==
    FloatParses(Strip(value, {"$", "£", "€", ","} \cup Whitespace))

DigitValue(c) == CHOOSE k \in 0..9 : <<"0","1","2","3","4","5","6","7","8","9">>[k + 1] = c

RECURSIVE DigitsToInt(_, _)
DigitsToInt(s, acc) ==
    IF s = <<>> THEN acc ELSE DigitsToInt(Tail(s), acc * 10 + DigitValue(Head(s)))

ToInt(s) == DigitsToInt(Strip(s, {"_"}), 0)

\* str.strip(): whitespace removed at both ends, as float() does before parsing
RECURSIVE Trim(_)
Trim(s) ==
    IF s = <<>> THEN s
    ELSE IF s[1] \in Whitespace THEN Trim(Tail(s))
    ELSE IF s[Len(s)] \in Whitespace THEN Trim(SubSeq(s, 1, Len(s) - 1))
    ELSE s

RECURSIVE StripZeros(_)
StripZeros(s) == IF s # <<>> /\ s[1] = "0" THEN StripZeros(Tail(s)) ELSE s

\* a <= b for digit strings without leading zeros
RECURSIVE DigitsLe(_, _)
DigitsLe(a, b) ==
    IF Len(a) # Len(b) THEN Len(a) < Len(b)
    ELSE IF a = <<>> THEN TRUE
    ELSE IF a[1] # b[1] THEN DigitValue(a[1]) < DigitValue(b[1])
    ELSE DigitsLe(Tail(a), Tail(b))

\* 32503680000, 01 Jan 3000, as a digit string
MaxTimestamp == <<"3","2","5","0","3","6","8","0","0","0","0">>

\* the value of a signed exponent, 0 when there is none
ExponentValue(ex) ==
    IF ex = <<>> THEN 0
    ELSE IF ex[1] = "-" THEN 0 - ToInt(Tail(ex)) ELSE ToInt(Unsigned(ex))

\* the digits d with the decimal point after the first pos of them: the
\* integer part and the fractional part
ShiftedInt(d, pos) ==
    IF pos <= 0 THEN <<>>
    ELSE IF pos >= Len(d) THEN d \o [k \in 1..(pos - Len(d)) |-> "0"]
    ELSE SubSeq(d, 1, pos)

ShiftedFrac(d, pos) ==
    IF pos <= 0 THEN d
    ELSE IF pos >= Len(d) THEN <<>> ELSE SubSeq(d, pos + 1, Len(d))

\* not (ts < 0 or ts > 32503680000) for ts = int.frac, negated when neg
InTimestampRange(neg, int, frac) ==
    /\ ~(neg /\ ~(AllIn(int, {"0"}) /\ AllIn(frac, {"0"})))
    /\ \/ int # MaxTimestamp /\ DigitsLe(int, MaxTimestamp)
       \/ int = MaxTimestamp /\ AllIn(frac, {"0"})

\* the number mant * 10^ex, negated when neg, is in the range
NumberInRange(neg, mant, ex) ==
    LET ip  == Strip(IntPart(mant), {"_"})
        fp  == Strip(FracPart(mant), {"_"})
        pos == Len(ip) + ExponentValue(ex)
    IN  InTimestampRange(neg, StripZeros(ShiftedInt(ip \o fp, pos)),
                         ShiftedFrac(ip \o fp, pos))

\* float(s) is a number in [0, 32503680000] (nan and the infinities are not);
\* the decimal point is moved by the exponent and the digit strings compared
TimestampInRange(s) ==
    /\ IsFloatNumber(Unsigned(s))
    /\ NumberInRange(Len(s) > 0 /\ s[1] = "-",
                     Mantissa(Unsigned(s)), Exponent(Unsigned(s)))

\* split s at every character of seps (empty pieces are kept)
RECURSIVE Split(_, _)
Split(s, seps) ==
    LET i == FirstIndex(s, seps)
    IN  IF i = 0 THEN <<s>>
        ELSE <<SubSeq(s, 1, i - 1)>> \o Split(SubSeq(s, i + 1, Len(s)), seps)

\* strptime directives %d, %m and %Y
IsDayPart(p) ==
    \/ Len(p) = 1 /\ p[1] \in Digits \ {"0"}
    \/ Len(p) = 2 /\ p[1] = " " /\ p[2] \in Digits \ {"0"}
    \/ Len(p) = 2 /\ AllIn(p, Digits) /\ ToInt(p) >= 1 /\ ToInt(p) <= 31

IsMonthPart(p) ==
    /\ Len(p) \in {1, 2}
    /\ AllIn(p, Digits)
    /\ ToInt(p) >= 1 /\ ToInt(p) <= 12

IsYearPart(p) == Len(p) = 4 /\ AllIn(p, Digits)

IsLeap(y) == (y % 4 = 0 /\ y % 100 # 0) \/ y % 400 = 0

DaysIn(y, m) ==
    IF m = 2 THEN (IF IsLeap(y) THEN 29 ELSE 28)
    ELSE IF m \in {4, 6, 9, 11} THEN 30 ELSE 31

\* datetime(y, m, d) exists (MINYEAR is 1)
IsDate(y, m, d) == y >= 1 /\ d <= DaysIn(y, m)

MonthAbbr == << <<"j","a","n">>, <<"f","e","b">>, <<"m","a","r">>, <<"a","p","r">>,
                <<"m","a","y">>, <<"j","u","n">>, <<"j","u","l">>, <<"a","u","g">>,
                <<"s","e","p">>, <<"o","c","t">>, <<"n","o","v">>, <<"d","e","c">> >>

MonthFull == << <<"j","a","n","u","a","r","y">>, <<"f","e","b","r","u","a","r","y">>,
                <<"m","a","r","c","h">>, <<"a","p","r","i","l">>, <<"m","a","y">>,
                <<"j","u","n","e">>, <<"j","u","l","y">>, <<"a","u","g","u","s","t">>,
                <<"s","e","p","t","e","m","b","e","r">>, <<"o","c","t","o","b","e","r">>,
                <<"n","o","v","e","m","b","e","r">>, <<"d","e","c","e","m","b","e","r">> >>

\* the three parts are a year, a month and a day that form a date
PartsAreDate(y, m, d) ==
    /\ IsYearPart(y) /\ IsMonthPart(m) /\ IsDayPart(d)
    /\ IsDate(ToInt(y), ToInt(m), ToInt(Strip(d, {" "})))

\* '%Y<sep>%m<sep>%d'
ParsesYMD(value, sep) ==
    LET p == Split(value, {sep}) IN Len(p) = 3 /\ PartsAreDate(p[1], p[2], p[3])

\* '%d<sep>%m<sep>%Y'
ParsesDMY(value, sep) ==
    LET p == Split(value, {sep}) IN Len(p) = 3 /\ PartsAreDate(p[3], p[2], p[1])

\* '%m<sep>%d<sep>%Y'
ParsesMDY(value, sep) ==
    LET p == Split(value, {sep}) IN Len(p) = 3 /\ PartsAreDate(p[3], p[1], p[2])

\* day, month name and year form a date
TextualDate(day, month, year, names) ==
    /\ IsDayPart(day) /\ IsYearPart(year)
    /\ \E m \in DOMAIN names :
          names[m] = Lower(month) /\ IsDate(ToInt(year), m, ToInt(Strip(day, {" "})))

\* the text after an optional leading blank of the day is day, month name
\* and year, separated by runs of whitespace
TextualRest(rest, lead, names) ==
    LET p == SelectSeq(Split(rest, Whitespace), LAMBDA x : x # <<>>)
    IN  /\ Len(rest) > 0
        /\ rest[1] \notin Whitespace /\ rest[Len(rest)] \notin Whitespace
        /\ Len(p) = 3
        /\ TextualDate(IF lead THEN <<" ">> \o p[1] ELSE p[1], p[2], p[3], names)

\* '%d %b %Y' and '%d %B %Y': a blank of the format stands for any run of
\* whitespace, month names are matched without regard to case; the day of %d
\* may be a blank and one digit
ParsesTextual(value, names) ==
    LET lead == Len(value) > 1 /\ value[1] = " " /\ value[2] \notin Whitespace
    IN  TextualRest(IF lead THEN Tail(value) ELSE value, lead, names)

\* validate_date: one of the ten strptime formats, or a Unix timestamp
validate_date(value) ==
    \/ ParsesYMD(value, "-") \/ ParsesDMY(value, "/") \/ ParsesMDY(value, "/")
    \/ ParsesDMY(value, "-") \/ ParsesMDY(value, "-")
    \/ ParsesDMY(value, ".") \/ ParsesMDY(value, ".")
    \/ ParsesYMD(value, "/")
    \/ ParsesTextual(value, MonthAbbr) \/ ParsesTextual(value, MonthFull)
    \/ TimestampInRange(Trim(value))

-----------------------------------------------------------------------------
(* re.match(pattern, value) for the patterns the schemas of the model use *)

\* the text before an optional final newline, which "$" lets through
BeforeFinalNewline(v) ==
    IF Len(v) > 0 /\ v[Len(v)] = "\n" THEN SubSeq(v, 1, Len(v) - 1) ELSE v

\* "match", "nomatch", or "error" when re.compile raises re.error
ReMatch(pattern, value) ==
    CASE pattern = ".*"       -> "match"
      [] pattern = "^.+$"     ->
            IF /\ BeforeFinalNewline(value) # <<>>
               /\ "\n" \notin Range(BeforeFinalNewline(value))
            THEN "match" ELSE "nomatch"
      [] pattern = "^[A-Z]+$" ->
            IF /\ BeforeFinalNewline(value) # <<>>
               /\ AllIn(BeforeFinalNewline(value), Range(UpperLetters))
            THEN "match" ELSE "nomatch"
      [] pattern = "["        -> "error"

-----------------------------------------------------------------------------
(* validate_field_values *)

\* the similarity of value to the name or an alias of a list item reaches
\* min_distance
LevListHit(value, list_items, min_distance) ==
    \E i \in DOMAIN list_items :
        LET item_name    == Get(list_items[i], "name", <<>>)
            item_aliases == Get(list_items[i], "aliases", <<>>)
        IN  \/ RatLe(RatInt(min_distance), LevRatio100(Lower(item_name), Lower(value)))
            \/ \E a \in DOMAIN item_aliases :
                  RatLe(RatInt(min_distance),
                        LevRatio100(Lower(item_aliases[a]), Lower(value)))

\* the body of the loop over values: "valid", "invalid", or "raise" when
\* re.match raises
FieldValueVerdict(value, field_def, sch) ==
    LET validate_type == Get(field_def, "validate_type", "NONE")
        ok(b) == IF b THEN "valid" ELSE "invalid"
    IN  IF value = <<>> /\ ~Get(field_def, "required", FALSE) THEN "valid"
        ELSE CASE validate_type = "REGEX" ->
                    LET m == ReMatch(Get(field_def, "regex", ".*"), value)
                    IN  IF m = "error" THEN "raise" ELSE ok(m = "match")
               [] validate_type = "SA_ID_NUMBER" -> ok(validate_sa_id_number(value))
               [] validate_type = "BANK_ACCOUNT_NUMBER" ->
                    ok(validate_bank_account_number(value))
               [] validate_type = "DECIMAL_AMOUNT" -> ok(validate_decimal_amount(value))
               [] validate_type = "UNIX_DATE" -> ok(validate_date(value))
               [] validate_type = "POSTAL_CODE" -> ok(validate_postal_code(value))
               [] validate_type = "ENUM" ->
                    ok(InSeq(value, Get(Get(sch, "enums", <<>>),
                                        Get(field_def, "enum", ""), <<>>)))
               [] validate_type = "LEV_DISTANCE" ->
                    ok(LevListHit(value,
                                  Get(Get(sch, "lists", <<>>),
                                      Get(field_def, "list", ""), <<>>),
                                  Get(field_def, "distance", 80)))
               [] OTHER -> "valid"

\* every value of the column, the empty ones too
AllValues(column_name, field_def, rows) ==
    [i \in DOMAIN rows |-> Get(rows[i], column_name, <<>>)]

\* the values of the column the loop runs over: all of them for a required
\* field, the non-empty ones otherwise
ColumnValues(column_name, field_def, rows) ==
    LET values == [i \in DOMAIN rows |-> Get(rows[i], column_name, <<>>)]
    IN  IF ~Get(field_def, "required", FALSE)
        THEN SelectSeq(values, LAMBDA v : v # <<>>)
        ELSE values

\* a column without values counted as fully valid
PercentageOfNothing(count, total) ==
    IF total > 0 THEN Rat(count * 100, total) ELSE RatInt(100)

Percentage(count, total) == IF total > 0 THEN Rat(count * 100, total) ELSE RatInt(0)

Raised == [raised |-> TRUE]

IsRaised(r) == "raised" \in DOMAIN r

\* the verdict on each value of the loop
Verdicts(values, field_def, sch) ==
    [i \in DOMAIN values |-> FieldValueVerdict(values[i], field_def, sch)]

Summary(valid_count, total_count) ==
    [valid            |-> valid_count = total_count,
     valid_count      |-> valid_count,
     total_count      |-> total_count,
     valid_percentage |-> Percentage(valid_count, total_count)]

\* the result for the verdicts of a column; an exception of re.match leaves
\* the function
Summarize(verdicts) ==
    IF \E i \in DOMAIN verdicts : verdicts[i] = "raise" THEN Raised
    ELSE Summary(Cardinality({i \in DOMAIN verdicts : verdicts[i] = "valid"}),
                 Len(verdicts))

validate_field_values(column_name, field_def, rows, sch) ==
    Summarize(Verdicts(ColumnValues(column_name, field_def, rows), field_def, sch))

-----------------------------------------------------------------------------
(* validate_field_values of validator_patch.py *)

\* the values the loop of the replacement runs over: the non-empty ones for
\* a field that is not required when there is one, else all of them
PatchValues(column_name, field_def, rows) ==
    LET values == [i \in DOMAIN rows |-> Get(rows[i], column_name, <<>>)]
        non_empty_values == SelectSeq(values, LAMBDA v : v # <<>>)
    IN  IF ~Get(field_def, "required", FALSE) /\ non_empty_values # <<>>
        THEN non_empty_values
        ELSE values

\* the body of the loop: the checks of the core function, a value whose check
\* raises counted as valid
PatchVerdict(value, field_def, sch) ==
    IF FieldValueVerdict(value, field_def, sch) = "raise" THEN "valid"
    ELSE FieldValueVerdict(value, field_def, sch)

PatchVerdicts(values, field_def, sch) ==
    [i \in DOMAIN values |-> PatchVerdict(values[i], field_def, sch)]

patch_validate_field_values(column_name, field_def, rows, sch) ==
    Summarize(PatchVerdicts(PatchValues(column_name, field_def, rows), field_def, sch))

-----------------------------------------------------------------------------
(* find_best_column_match *)

\* Python's None where a column name is expected: a one-element sequence
\* that is no string of single characters
None == <<"None">>

NoValidation ==
    [valid |-> FALSE, valid_count |-> 0, total_count |-> 0,
     valid_percentage |-> RatInt(0)]

NoMatch(field_name) ==
    [field |-> field_name, column |-> None, match_type |-> "none",
     score |-> RatInt(0), validation |-> NoValidation]

Match(field_name, col_name, match_type, score, validation) ==
    [field |-> field_name, column |-> col_name, match_type |-> match_type,
     score |-> score, validation |-> validation]

\* every column, the claimed ones too
EveryColumn(cols, claimed) == cols

\* the columns of column_info not yet in matched_columns, in column order
Unclaimed(cols, claimed) == SelectSeq(cols, LAMBDA c : c \notin claimed)

\* validate_field_values for each unclaimed column, in column order
Validations(free, field_def, rows, sch) ==
    [i \in DOMAIN free |-> validate_field_values(free[i], field_def, rows, sch)]

\* the last column with the highest valid_percentage above 50
RECURSIVE ContentLast(_, _, _, _, _)
ContentLast(field_name, free, vals, i, best) ==
    IF i > Len(free) THEN best
    ELSE IF RatLe(best.score, vals[i].valid_percentage)
            /\ RatGt(vals[i].valid_percentage, RatInt(50))
         THEN ContentLast(field_name, free, vals, i + 1,
                  Match(field_name, free[i], "content_validation",
                        vals[i].valid_percentage, vals[i]))
         ELSE ContentLast(field_name, free, vals, i + 1, best)

\* content-based pass: the first column with the highest valid_percentage
\* above 50, as a match; best_content_match = None is a match without column
RECURSIVE ContentFold(_, _, _, _, _)
ContentFold(field_name, free, vals, i, best) ==
    IF i > Len(free) THEN best
    ELSE IF RatGt(vals[i].valid_percentage, best.score)
            /\ RatGt(vals[i].valid_percentage, RatInt(50))
         THEN ContentFold(field_name, free, vals, i + 1,
                  Match(field_name, free[i], "content_validation",
                        vals[i].valid_percentage, vals[i]))
         ELSE ContentFold(field_name, free, vals, i + 1, best)

\* the (column, slug) pairs of the fuzzy step in the order the loops visit them
FuzzyPairs(cols, slugs) ==
    [k \in 1..(Len(cols) * Len(slugs)) |->
        [col  |-> ((k - 1) \div Len(slugs)) + 1,
         slug |-> slugs[((k - 1) % Len(slugs)) + 1]]]

\* lev.ratio of slug and column name, lower-cased, underscores as blanks
Similarity(slug, col_name) ==
    LevRatio100(ReplaceChar(Lower(slug), "_", " "), ReplaceChar(Lower(col_name), "_", " "))

\* one candidate of the fuzzy step against the running best_match
FuzzyBetter(field_name, col_name, similarity, validation, combined_score, best) ==
    IF /\ RatGt(similarity, best.score)
       /\ RatGt(similarity, RatInt(60))
       /\ RatGt(combined_score, best.score)
    THEN Match(field_name, col_name, "fuzzy", combined_score, validation)
    ELSE best

FuzzyCandidate(field_name, col_name, similarity, validation, best) ==
    FuzzyBetter(field_name, col_name, similarity, validation,
                RatMix(similarity, 3, validation.valid_percentage, 7), best)

\* fuzzy step: best is best_match, its score the running best_score;
\* best_match = None is a match without column
RECURSIVE FuzzyFold(_, _, _, _, _, _)
FuzzyFold(field_name, free, vals, pairs, i, best) ==
    IF i > Len(pairs) THEN best
    ELSE FuzzyFold(field_name, free, vals, pairs, i + 1,
             FuzzyCandidate(field_name, free[pairs[i].col],
                            Similarity(pairs[i].slug, free[pairs[i].col]),
                            vals[pairs[i].col], best))

\* first element of the sequence s whose test holds, None when there is none
FirstThat(s, test) ==
    IF \E i \in DOMAIN s : test[i]
    THEN s[CHOOSE i \in DOMAIN s : test[i] /\ \A j \in 1..(i - 1) : ~test[j]]
    ELSE None

\* lower-cased, underscores and blanks removed
Normalized(s) == Strip(Lower(s), {"_", " "})

LowerAll(slugs) == [k \in DOMAIN slugs |-> Lower(slugs[k])]

NameMatch(field_name, col_name, match_type, score, free, vals) ==
    Match(field_name, col_name, match_type, RatInt(score),
          vals[CHOOSE i \in DOMAIN free : free[i] = col_name])

\* the cascade with the fuzzy step tried before the normalized names
FuzzyBeforeNormalized(field_name, free, vals, best_content_match, exact_slug, ci_field, ci_slug, norm, fuzzy) ==
    IF best_content_match.column # None /\ RatGt(best_content_match.score, RatInt(70))
    THEN best_content_match
    ELSE IF InSeq(field_name, free)
    THEN NameMatch(field_name, field_name, "exact_field_name", 100, free, vals)
    ELSE IF exact_slug # None
    THEN NameMatch(field_name, exact_slug, "exact_slug", 100, free, vals)
    ELSE IF ci_field # None
    THEN NameMatch(field_name, ci_field, "case_insensitive_field", 98, free, vals)
    ELSE IF ci_slug # None
    THEN NameMatch(field_name, ci_slug, "case_insensitive", 95, free, vals)
    ELSE IF fuzzy.column # None THEN fuzzy
    ELSE IF norm # None
    THEN NameMatch(field_name, norm, "normalized_match", 90, free, vals)
    ELSE IF best_content_match.column # None THEN best_content_match
    ELSE NoMatch(field_name)

\* the cascade over the candidates of the steps, each None when its step
\* finds no unclaimed column
Cascade(field_name, free, vals, best_content_match, exact_slug, ci_field, ci_slug, norm, fuzzy) ==
    IF best_content_match.column # None /\ RatGt(best_content_match.score, RatInt(70))
    THEN best_content_match
    ELSE IF InSeq(field_name, free)
    THEN NameMatch(field_name, field_name, "exact_field_name", 100, free, vals)
    ELSE IF exact_slug # None
    THEN NameMatch(field_name, exact_slug, "exact_slug", 100, free, vals)
    ELSE IF ci_field # None
    THEN NameMatch(field_name, ci_field, "case_insensitive_field", 98, free, vals)
    ELSE IF ci_slug # None
    THEN NameMatch(field_name, ci_slug, "case_insensitive", 95, free, vals)
    ELSE IF norm # None
    THEN NameMatch(field_name, norm, "normalized_match", 90, free, vals)
    ELSE IF fuzzy.column # None THEN fuzzy
    ELSE IF best_content_match.column # None THEN best_content_match
    ELSE NoMatch(field_name)

BestMatch(field_name, slugs, free, vals) ==
    IF \E i \in DOMAIN vals : IsRaised(vals[i]) THEN Raised
    ELSE Cascade(field_name, free, vals,
            ContentFold(field_name, free, vals, 1, NoMatch(field_name)),
            FirstThat(slugs, [i \in DOMAIN slugs |-> InSeq(slugs[i], free)]),
            FirstThat(free, [i \in DOMAIN free |-> Lower(free[i]) = Lower(field_name)]),
            FirstThat(free, [i \in DOMAIN free |-> InSeq(Lower(free[i]), LowerAll(slugs))]),
            FirstThat(free, [i \in DOMAIN free |->
                                Normalized(free[i]) = Normalized(field_name)]),
            FuzzyFold(field_name, free, vals, FuzzyPairs(free, slugs), 1,
                      NoMatch(field_name)))

MatchAmong(field_name, field_def, free, rows, sch) ==
    BestMatch(field_name, Get(field_def, "slug", <<field_name>>), free,
              Validations(free, field_def, rows, sch))

\* column_info as get_column_info gives it, a dict keyed by the column names
\* in column order, and as get_table_data gives it, the list of the names
ColumnInfo(names) == [names |-> names, items |-> TRUE]

ColumnList(names) == [names |-> names, items |-> FALSE]

\* the fuzzy step calls column_info.items(): on a list of names the call
\* leaves by an AttributeError once no earlier step has returned
AtFuzzyStep(cols, m) ==
    IF cols.items \/ IsRaised(m) THEN m
    ELSE IF \/ m.match_type \in {"fuzzy", "none"}
            \/ m.match_type = "content_validation" /\ ~RatGt(m.score, RatInt(70))
    THEN Raised
    ELSE m

\* the best match among all columns, the claimed ones too
MatchAnyColumn(field_name, field_def, cols, rows, sch, claimed) ==
    AtFuzzyStep(cols, MatchAmong(field_name, field_def, cols.names, rows, sch))

find_best_column_match(field_name, field_def, cols, rows, sch, claimed) ==
    AtFuzzyStep(cols, MatchAmong(field_name, field_def, Unclaimed(cols.names, claimed),
                                 rows, sch))

-----------------------------------------------------------------------------
(* validate_single_value and validate_row *)

\* the threshold validate_single_value puts in place of the declared distance
TestDistance == 40

RegexNamePrefix ==
    <<"V","a","l","i","d","a","t","i","o","n",":"," ","R","E","G","E","X","."," ",
      "T","h","e"," ","s","h","a","r","e","h","o","l","d","e","r"," ",
      "f","u","l","l"," ","n","a","m","e">>

EnumCountryPrefix ==
    <<"V","a","l","i","d","a","t","i","o","n",":"," ","E","N","U","M","."," ",
      "T","h","e"," ","s","h","a","r","e","h","o","l","d","e","r"," ",
      "c","o","u","n","t","r","y"," ","c","o","d","e">>

MaxRat(rats) == CHOOSE s \in rats : \A q \in rats : RatLe(q, s)

\* the similarities of value to the names and the aliases of the list
ListSimilarities(value, list_items) ==
    {LevRatio100(Lower(Get(list_items[i], "name", <<>>)), Lower(value)) :
        i \in DOMAIN list_items}
    \cup UNION {{LevRatio100(Lower(Get(list_items[i], "aliases", <<>>)[a]), Lower(value)) :
                    a \in DOMAIN Get(list_items[i], "aliases", <<>>)} :
                i \in DOMAIN list_items}

\* best_score of the LEV_DISTANCE branch: the highest similarity of value to
\* a name or an alias of the list, 0 for an empty list
BestListScore(value, list_items) ==
    MaxRat({RatInt(0)} \cup ListSimilarities(value, list_items))

\* "valid", "invalid", or "raise" when re.match raises
validate_single_value(value, field_def, sch) ==
    LET validate_type == Get(field_def, "validate_type", "NONE")
        required      == Get(field_def, "required", FALSE)
        description   == Get(field_def, "description", <<>>)
        ok(b) == IF b THEN "valid" ELSE "invalid"
    IN  IF value = <<>> THEN ok(~required)
        ELSE CASE validate_type = "REGEX" ->
                    LET pattern == IF StartsWith(description, RegexNamePrefix)
                                   THEN "^.+$"
                                   ELSE Get(field_def, "regex", ".*")
                        m == ReMatch(pattern, value)
                    IN  IF m = "error" THEN "raise" ELSE ok(m = "match")
               [] validate_type = "SA_ID_NUMBER" -> ok(validate_sa_id_number(value))
               [] validate_type = "BANK_ACCOUNT_NUMBER" ->
                    ok(validate_bank_account_number(value))
               [] validate_type = "DECIMAL_AMOUNT" -> ok(validate_decimal_amount(value))
               [] validate_type = "UNIX_DATE" -> ok(validate_date(value))
               [] validate_type = "POSTAL_CODE" -> ok(validate_postal_code(value))
               [] validate_type = "ENUM" ->
                    IF StartsWith(description, EnumCountryPrefix)
                       /\ value = <<"N","/","A">>
                    THEN "valid"
                    ELSE ok(InSeq(value, Get(Get(sch, "enums", <<>>),
                                             Get(field_def, "enum", ""), <<>>)))
               [] validate_type = "LEV_DISTANCE" ->
                    LET list_items == Get(Get(sch, "lists", <<>>),
                                          Get(field_def, "list", ""), <<>>)
                        min_distance == TestDistance
                    IN  ok(~RatLt(BestListScore(value, list_items), RatInt(min_distance)))
               [] OTHER -> "valid"

\* a Python dict kept as the sequence of its [key, val] items in insertion order
HasKey(d, key) == \E i \in DOMAIN d : d[i].key = key

Lookup(d, key) == d[CHOOSE i \in DOMAIN d : d[i].key = key].val

\* d[key] = val
DictSet(d, key, val) ==
    IF HasKey(d, key)
    THEN [i \in DOMAIN d |-> IF d[i].key = key THEN [key |-> key, val |-> val] ELSE d[i]]
    ELSE Append(d, [key |-> key, val |-> val])

\* truth value of a column entry: neither None nor the empty string
Truthy(col) == col # None /\ col # <<>>

\* schema.get("schema", {}) as the sequence of its [key, val] items
SchemaFields(sch) == Get(sch, "schema", <<>>)

\* the reverse mapping column -> field name built from field_matches
RECURSIVE ColumnToField(_, _, _)
ColumnToField(fm, i, acc) ==
    IF i > Len(fm) THEN acc
    ELSE LET column_name == Get(fm[i].val, "column", None)
         IN  IF Truthy(column_name)
             THEN ColumnToField(fm, i + 1, DictSet(acc, column_name, fm[i].key))
             ELSE ColumnToField(fm, i + 1, acc)

DomicileCode == <<"D","O","M","I","C","I","L","E","_","C","O","D","E">>

\* the MISSING_COLUMN outcomes of the loop over the required fields
MissingOutcomes(sch, column_to_field) ==
    LET missing(f) ==
            /\ Get(f.val, "required", FALSE)
            /\ f.key # DomicileCode
            /\ ~\E c \in DOMAIN column_to_field : column_to_field[c].val = f.key
        fields == SelectSeq(SchemaFields(sch), missing)
    IN  [i \in DOMAIN fields |->
            [field |-> fields[i].key, column |-> None, value |-> None,
             status |-> "MISSING_COLUMN", valid |-> FALSE]]

Outcome(field_name, column_name, value, validation) ==
    [field |-> field_name, column |-> column_name, value |-> value,
     status |-> IF validation = "valid" THEN "MATCH"
                ELSE IF validation = "invalid" THEN "MISMATCH" ELSE "RAISE",
     valid |-> validation = "valid"]

\* schema_fields.get(field_name, {})
FieldDefOf(sch, field_name) ==
    IF HasKey(SchemaFields(sch), field_name)
    THEN Lookup(SchemaFields(sch), field_name)
    ELSE <<>>

\* the MATCH / MISMATCH outcomes of the loop over the mapped columns
MappedOutcomes(row, sch, column_to_field) ==
    [i \in DOMAIN column_to_field |->
        Outcome(column_to_field[i].val, column_to_field[i].key,
                Get(row, column_to_field[i].key, <<>>),
                validate_single_value(Get(row, column_to_field[i].key, <<>>),
                                      FieldDefOf(sch, column_to_field[i].val), sch))]

\* the result with a valid flag that looks at the mismatches only
MismatchResult(field_results) ==
    IF \E i \in DOMAIN field_results : field_results[i].status = "RAISE"
    THEN Raised
    ELSE [valid  |-> \A i \in DOMAIN field_results : field_results[i].status # "MISMATCH",
          fields |-> field_results]

\* the result for the outcomes of a row; an exception of re.match leaves the
\* function
RowResult(field_results) ==
    IF \E i \in DOMAIN field_results : field_results[i].status = "RAISE"
    THEN Raised
    ELSE [valid  |-> \A i \in DOMAIN field_results : field_results[i].valid,
          fields |-> field_results]

RowOutcomes(row, sch, column_to_field) ==
    MissingOutcomes(sch, column_to_field) \o MappedOutcomes(row, sch, column_to_field)

validate_row(row, sch, fm) ==
    RowResult(RowOutcomes(row, sch, ColumnToField(fm, 1, <<>>)))

-----------------------------------------------------------------------------
(* match_schema: the local variables as a record, one operator per loop body *)

NewFrame ==
    [field_matches |-> <<>>, matched_columns |-> {}, matched_count |-> 0,
     matches_found |-> 0]

\* best_match["score"] > 0 and best_match["column"]
IsHit(m) == RatGt(m.score, RatInt(0)) /\ Truthy(m.column)

\* matched_count += 1; matched_columns.add(column) when the match is a hit
Claim(fr, m) ==
    IF IsHit(m)
    THEN [fr EXCEPT !.matched_count = @ + 1,
                    !.matched_columns = @ \cup {m.column}]
    ELSE fr

\* every field taken for a field with one match
AlwaysOne(field_def) == 1

MaxMatchesOf(field_def) == Get(field_def, "max_matches", 1)

\* field_matches[key] = m, after the claim of its column
Record(fr, key, m) ==
    IF IsRaised(m) THEN Raised
    ELSE [Claim(fr, m) EXCEPT !.field_matches = DictSet(@, key, m)]

\* body of the first pass for a field with max_matches <= 1
FirstPassField(fr, f, cols, rows, sch) ==
    Record(fr, f.key,
           find_best_column_match(f.key, f.val, cols, rows, sch, fr.matched_columns))

\* the primary match of a second-pass field is already in field_matches
HasPrimary(fr, f) ==
    /\ HasKey(fr.field_matches, f.key)
    /\ IsHit(Lookup(fr.field_matches, f.key))

\* the first match of a second-pass field sets matches_found
RecordFirst(fr, key, m) ==
    IF IsRaised(m) THEN Raised
    ELSE [Record(fr, key, m) EXCEPT !.matches_found = IF IsHit(m) THEN 1 ELSE 0]

\* body of the second pass up to the while loop
SecondPassField(fr, f, cols, rows, sch) ==
    IF HasPrimary(fr, f) THEN [fr EXCEPT !.matches_found = 1]
    ELSE RecordFirst(fr, f.key,
             find_best_column_match(f.key, f.val, cols, rows, sch, fr.matched_columns))

RECURSIVE IntToStr(_)
IntToStr(k) ==
    LET d == <<"0","1","2","3","4","5","6","7","8","9">>[(k % 10) + 1]
    IN  IF k < 10 THEN <<d>> ELSE Append(IntToStr(k \div 10), d)

\* f"{field_name}_{matches_found + 1}"
AdditionalFieldName(field_name, found) == field_name \o <<"_">> \o IntToStr(found + 1)

\* the match one iteration of the while loop looks up
AdditionalMatch(fr, f, cols, rows, sch) ==
    find_best_column_match(f.key, f.val, cols, rows, sch, fr.matched_columns)

\* body of the while loop when the additional match is a hit
AdditionalField(fr, f, additional_match) ==
    [Claim(fr, additional_match) EXCEPT
        !.matches_found = @ + 1,
        !.field_matches =
            DictSet(@, AdditionalFieldName(f.key, fr.matches_found), additional_match)]

\* the score match_schema returns
MatchScore(sch, fr) ==
    LET schema_fields == SchemaFields(sch)
        required_fields ==
            SelectSeq(schema_fields, LAMBDA f : Get(f.val, "required", FALSE))
        required_matched ==
            Cardinality({i \in DOMAIN required_fields :
                /\ HasKey(fr.field_matches, required_fields[i].key)
                /\ Truthy(Lookup(fr.field_matches, required_fields[i].key).column)})
    IN  IF required_fields = <<>>
        THEN (IF schema_fields # <<>>
              THEN Rat(fr.matched_count * 100, Len(schema_fields))
              ELSE RatInt(0))
        ELSE Rat(required_matched * 100, Len(required_fields))

\* the aggregate report validate_data builds from the row validations
ValidationResults(sch, score, validations) ==
    LET total_rows == Len(validations)
    IN  [match_score  |-> score,
         total_rows   |-> total_rows,
         valid_rows   |-> total_rows,
         invalid_rows |-> 0,
         success_rate |-> RatInt(100)]

-----------------------------------------------------------------------------
(* Inputs: schemas and imported tables *)

\* sequences of at most k distinct elements of S
SeqsUpTo(S, k) ==
    UNION {{s \in [1..n -> S] : \A i, j \in 1..n : i # j => s[i] # s[j]} : n \in 0..k}

sAB == <<"A","B">>

sA_B == <<"a","_","b">>

sP == <<"P">>

sP_2 == <<"P","_","2">>

sP_3 == <<"P","_","3">>

sR == <<"R">>

sL == <<"L">>

sID_NUMBER == <<"I","D","_","N","U","M","B","E","R">>

sCOMPANY == <<"C","O","M","P","A","N","Y">>

sSHAREHOLDER_ID_NUMBER ==
    <<"S","H","A","R","E","H","O","L","D","E","R","_","I","D","_","N","U","M","B","E","R">>

sCOMPANY_NAME == <<"C","O","M","P","A","N","Y","_","N","A","M","E">>

vEmpty == <<>>

vIdNumber == <<"1","2","3","4","5","6","7","8","9","0","1","2","3">>

vZA == <<"Z","A">>

Item(k, v) == [key |-> k, val |-> v]

Enums == [COUNTRIES |-> <<vZA>>]

Lists == [CURRENCIES |-> <<[name |-> <<"Z","A","R">>, aliases |-> <<<<"R","a","n","d">>>>]>>]

FieldPool ==
    { Item(sAB, [validate_type |-> "SA_ID_NUMBER", required |-> TRUE]),
      Item(sP, [max_matches |-> 2]),
      Item(sP_2, [validate_type |-> "REGEX", regex |-> "^[A-Z]+$", required |-> TRUE]),
      Item(DomicileCode, [validate_type |-> "ENUM", enum |-> "COUNTRIES",
                          required |-> TRUE,
                          description |-> EnumCountryPrefix \o <<".">>]),
      Item(sR, [validate_type |-> "REGEX", regex |-> "[", required |-> TRUE]) }

ColumnPool == {sAB, sA_B, sP, sP_3}

ValuePool == {vEmpty, vIdNumber, vZA}

\* a schema file without the "schema" key
BrokenSchema == [type |-> "broken", enums |-> Enums]

Schemas ==
    {[schema |-> fs, enums |-> Enums, lists |-> Lists] :
        fs \in {s \in SeqsUpTo(FieldPool, MaxFields) :
                   \A i, j \in DOMAIN s : i # j => s[i].key # s[j].key}}
    \cup {BrokenSchema}

\* column names of one table are distinct without regard to case
ColumnLists ==
    {cs \in SeqsUpTo(ColumnPool, MaxColumns) :
        \A i, j \in DOMAIN cs : i # j => Lower(cs[i]) # Lower(cs[j])}

\* the tables with the columns cs: a table without columns has no rows
Tables(cs) ==
    UNION {[1..n -> [Range(cs) -> ValuePool]] :
              n \in 0..(IF cs = <<>> THEN 0 ELSE MaxCells \div Len(cs))}

\* the scenario of the shareholder register
ShareholderId ==
    Item(sSHAREHOLDER_ID_NUMBER,
         [slug |-> <<sID_NUMBER>>, validate_type |-> "SA_ID_NUMBER", required |-> TRUE])

CompanyName == Item(sCOMPANY_NAME, [slug |-> <<sCOMPANY>>, required |-> TRUE])

ScenarioSchemas ==
    {[schema |-> fs] : fs \in {<<ShareholderId, CompanyName>>,
                               <<CompanyName, ShareholderId>>}}

ScenarioColumns == <<sID_NUMBER, sCOMPANY>>

sP_ == <<"P","_">>

\* two fields that may claim two columns each, the name of the second being
\* the name under which the second column of the first is recorded
RepeatingSchema ==
    [schema |-> <<Item(sP, [max_matches |-> 2]), Item(sP_2, [max_matches |-> 2])>>]

RepeatingColumns == <<sP, sP_, sP_2>>

\* a field with a validation rule that may claim two columns
RuledSchema ==
    [schema |-> <<Item(sP, [max_matches |-> 2, validate_type |-> "SA_ID_NUMBER"])>>]

RuledColumns == <<sP, sP_>>

-----------------------------------------------------------------------------
(* One detection pass: match_schema, then the rows, then the report *)

Frame ==
    [field_matches |-> field_matches, matched_columns |-> matched_columns,
     matched_count |-> matched_count, matches_found |-> matches_found]

SetFrame(fr) ==
    /\ field_matches' = fr.field_matches
    /\ matched_columns' = fr.matched_columns
    /\ matched_count' = fr.matched_count
    /\ matches_found' = fr.matches_found

Inputs == <<schema, columns, data>>

Results == <<match_score, ri, row_validations, report>>

Locals == <<field_matches, matched_columns, matched_count, matches_found>>

InitRun ==
    /\ pc = "match_schema"
    /\ fi = 0
    /\ field_matches = <<>>
    /\ matched_columns = {}
    /\ matched_count = 0
    /\ matches_found = 0
    /\ match_score = RatInt(0)
    /\ ri = 0
    /\ row_validations = <<>>
    /\ report = None

ValueVars == <<value_field, value_summary, patch_summary, value_verdicts>>

IdleValues ==
    /\ value_field = None
    /\ value_summary = None
    /\ patch_summary = None
    /\ value_verdicts = <<>>

LoadVars == <<registry, SCHEMA_CACHE, existing_mapping, session_status, calls, mapping_info, passes>>

\* one pass over an already loaded schema: no registry, no mapping file
IdleLoad ==
    /\ registry = [present |-> FALSE, files |-> <<>>]
    /\ SCHEMA_CACHE = <<>>
    /\ existing_mapping = <<>>
    /\ session_status = None
    /\ calls = 0
    /\ mapping_info = None
    /\ passes = <<>>

Init ==
    /\ \/ /\ schema \in Schemas
          /\ columns \in ColumnLists
       \/ /\ schema \in ScenarioSchemas
          /\ columns = ScenarioColumns
       \/ /\ schema = RepeatingSchema
          /\ columns = RepeatingColumns
       \/ /\ schema = RuledSchema
          /\ columns = RuledColumns
    /\ data \in Tables(columns)
    /\ InitRun
    /\ IdleValues
    /\ IdleLoad

\* match_schema on a schema without the "schema" key: return 0.0, {}
MatchSchemaInvalid ==
    /\ pc = "match_schema"
    /\ "schema" \notin DOMAIN schema
    /\ pc' = "validate_rows"
    /\ ri' = 1
    /\ UNCHANGED <<Inputs, ValueVars, LoadVars, fi, Locals, match_score, row_validations, report>>

MatchSchemaBegin ==
    /\ pc = "match_schema"
    /\ "schema" \in DOMAIN schema
    /\ pc' = "first_pass"
    /\ fi' = 1
    /\ SetFrame(NewFrame)
    /\ UNCHANGED <<Inputs, ValueVars, LoadVars, Results>>

\* one iteration of the first pass
FirstPassStep ==
    /\ pc = "first_pass"
    /\ fi <= Len(schema.schema)
    /\ IF MaxMatchesOf(schema.schema[fi].val) > 1
       THEN /\ fi' = fi + 1
            /\ UNCHANGED <<pc, Locals>>
       ELSE \E fr \in {FirstPassField(Frame, schema.schema[fi], ColumnInfo(columns), data, schema)} :
               IF IsRaised(fr)
               THEN /\ pc' = "raised"
                    /\ UNCHANGED <<fi, Locals>>
               ELSE /\ fi' = fi + 1
                    /\ SetFrame(fr)
                    /\ UNCHANGED pc
    /\ UNCHANGED <<Inputs, ValueVars, LoadVars, Results>>

FirstPassEnd ==
    /\ pc = "first_pass"
    /\ fi > Len(schema.schema)
    /\ pc' = "second_pass"
    /\ fi' = 1
    /\ UNCHANGED <<Inputs, ValueVars, LoadVars, Locals, Results>>

\* one iteration of the second pass, up to its while loop
SecondPassStep ==
    /\ pc = "second_pass"
    /\ fi <= Len(schema.schema)
    /\ IF MaxMatchesOf(schema.schema[fi].val) <= 1
       THEN /\ fi' = fi + 1
            /\ UNCHANGED <<pc, Locals>>
       ELSE \E fr \in {SecondPassField(Frame, schema.schema[fi], ColumnInfo(columns), data, schema)} :
               IF IsRaised(fr)
               THEN /\ pc' = "raised"
                    /\ UNCHANGED <<fi, Locals>>
               ELSE /\ pc' = "additional"
                    /\ SetFrame(fr)
                    /\ UNCHANGED fi
    /\ UNCHANGED <<Inputs, ValueVars, LoadVars, Results>>

\* one iteration of the while loop: an additional match, or break
AdditionalStep ==
    /\ pc = "additional"
    /\ matches_found < MaxMatchesOf(schema.schema[fi].val)
    /\ \E additional_match \in
             {AdditionalMatch(Frame, schema.schema[fi], ColumnInfo(columns), data, schema)} :
          IF IsRaised(additional_match)
          THEN /\ pc' = "raised"
               /\ UNCHANGED <<fi, Locals>>
          ELSE IF IsHit(additional_match)
          THEN /\ SetFrame(AdditionalField(Frame, schema.schema[fi], additional_match))
               /\ UNCHANGED <<pc, fi>>
          ELSE /\ pc' = "second_pass"
               /\ fi' = fi + 1
               /\ UNCHANGED Locals
    /\ UNCHANGED <<Inputs, ValueVars, LoadVars, Results>>

\* the while loop ends: matches_found has reached max_matches
AdditionalEnd ==
    /\ pc = "additional"
    /\ matches_found >= MaxMatchesOf(schema.schema[fi].val)
    /\ pc' = "second_pass"
    /\ fi' = fi + 1
    /\ UNCHANGED <<Inputs, ValueVars, LoadVars, Locals, Results>>

\* the score, and match_schema returns
SecondPassEnd ==
    /\ pc = "second_pass"
    /\ fi > Len(schema.schema)
    /\ match_score' = MatchScore(schema, Frame)
    /\ pc' = "validate_rows"
    /\ ri' = 1
    /\ UNCHANGED <<Inputs, ValueVars, LoadVars, fi, Locals, row_validations, report>>

\* validate_data: one iteration of the loop over the rows
ValidateRowStep ==
    /\ pc = "validate_rows"
    /\ ri <= Len(data)
    /\ \E row_validation \in {validate_row(data[ri], schema, field_matches)} :
          IF IsRaised(row_validation)
          THEN /\ pc' = "raised"
               /\ UNCHANGED <<ri, row_validations>>
          ELSE /\ row_validations' =
                      Append(row_validations,
                             [row_id |-> ri, valid |-> row_validation.valid,
                              fields |-> row_validation.fields])
               /\ ri' = ri + 1
               /\ UNCHANGED pc
    /\ UNCHANGED <<Inputs, ValueVars, LoadVars, fi, Locals, match_score, report>>

\* validate_data: the overall validation stats
BuildReport ==
    /\ pc = "validate_rows"
    /\ ri > Len(data)
    /\ report' = ValidationResults(schema, match_score, row_validations)
    /\ pc' = "done"
    /\ UNCHANGED <<Inputs, ValueVars, LoadVars, fi, Locals, match_score, ri, row_validations>>

Next ==
    \/ MatchSchemaInvalid
    \/ MatchSchemaBegin
    \/ FirstPassStep
    \/ FirstPassEnd
    \/ SecondPassStep
    \/ AdditionalStep
    \/ AdditionalEnd
    \/ SecondPassEnd
    \/ ValidateRowStep
    \/ BuildReport

Spec == Init /\ [][Next]_vars

-----------------------------------------------------------------------------
(* The value checks on their own: one column of values against one field *)

sZ == <<"Z">>

vDecimal == <<"1","2",".","5">>

vDate == <<"2","0","2","4","-","0","1","-","1","5">>

vNA == <<"N","/","A">>

vPostal == <<"1","2","3","4">>

ValueTestPool == {vEmpty, vIdNumber, vZA, sZ, vDecimal, vDate, vNA, vPostal}

PlainTypes ==
    {"NONE", "SA_ID_NUMBER", "BANK_ACCOUNT_NUMBER", "DECIMAL_AMOUNT", "UNIX_DATE",
     "POSTAL_CODE", "CUSTOM"}

ValueFieldDefs ==
    {[validate_type |-> ty, required |-> r] : ty \in PlainTypes, r \in BOOLEAN}
    \cup {<<>>, [required |-> TRUE], [validate_type |-> "REGEX"]}
    \cup {[validate_type |-> "REGEX", regex |-> p, required |-> r] :
             p \in {"^[A-Z]+$", ".*", "["}, r \in BOOLEAN}
    \cup {[validate_type |-> "ENUM", enum |-> "COUNTRIES", required |-> r] :
             r \in BOOLEAN}
    \cup {[validate_type |-> "LEV_DISTANCE", list |-> "CURRENCIES", distance |-> d,
           required |-> r] : d \in {30, 80}, r \in BOOLEAN}
    \cup {[validate_type |-> "LEV_DISTANCE", list |-> "CURRENCIES"]}
    \cup {[validate_type |-> "REGEX", regex |-> "^[A-Z]+$",
           description |-> RegexNamePrefix \o <<".">>],
          [validate_type |-> "ENUM", enum |-> "COUNTRIES",
           description |-> EnumCountryPrefix \o <<".">>]}

ValueColumn == sAB

InitValue ==
    /\ schema = [schema |-> <<>>, enums |-> Enums, lists |-> Lists]
    /\ columns = <<ValueColumn>>
    /\ data \in UNION {[1..n -> [{ValueColumn} -> ValueTestPool]] : n \in 0..MaxValues}
    /\ value_field \in ValueFieldDefs
    /\ value_summary = None
    /\ patch_summary = None
    /\ value_verdicts = <<>>
    /\ pc = "validate_field_values"
    /\ fi = 0
    /\ field_matches = <<>>
    /\ matched_columns = {}
    /\ matched_count = 0
    /\ matches_found = 0
    /\ match_score = RatInt(0)
    /\ ri = 0
    /\ row_validations = <<>>
    /\ report = None
    /\ IdleLoad

\* validate_field_values of core/validator.py and its replacement of
\* validator_patch.py on the column
ColumnSummary ==
    /\ pc = "validate_field_values"
    /\ value_summary' = validate_field_values(ValueColumn, value_field, data, schema)
    /\ patch_summary' = patch_validate_field_values(ValueColumn, value_field, data, schema)
    /\ pc' = "validate_single_value"
    /\ ri' = 1
    /\ UNCHANGED <<Inputs, fi, Locals, match_score, row_validations, report,
                   value_field, value_verdicts, LoadVars>>

\* validate_single_value on the value of the next row
SingleValue ==
    /\ pc = "validate_single_value"
    /\ ri <= Len(data)
    /\ value_verdicts' = Append(value_verdicts,
                          validate_single_value(data[ri][ValueColumn], value_field, schema))
    /\ ri' = ri + 1
    /\ UNCHANGED <<Inputs, pc, fi, Locals, match_score, row_validations, report,
                   value_field, value_summary, patch_summary, LoadVars>>

NextValue == ColumnSummary \/ SingleValue

SpecValue == InitValue /\ [][NextValue]_vars

-----------------------------------------------------------------------------
(* find_best_column_match on its own: one field against the columns of a    *)
(* table, some of them already claimed                                      *)

MaxSamples == 3

s_ab == <<"a","b">>

sF == <<"F">>

sABCD_E == <<"a","b","c","d","_","e">>

sABCD_blank_E == <<"a","b","c","d"," ","e">>

sABCDXYZ == <<"a","b","c","d","x","y","z">>

\* a field found by its name, a field found by its slugs, a field whose
\* pattern does not compile
MatchFieldPool ==
    { Item(sAB, [validate_type |-> "SA_ID_NUMBER", required |-> TRUE]),
      Item(sF, [slug |-> <<s_ab, sABCD_E>>, validate_type |-> "SA_ID_NUMBER"]),
      Item(sR, [validate_type |-> "REGEX", regex |-> "[", required |-> TRUE]) }

MatchColumnPool == {s_ab, sAB, sA_B, sABCD_blank_E, sABCDXYZ}

MatchColumnLists ==
    {cs \in SeqsUpTo(MatchColumnPool, MaxColumns) :
        \A i, j \in DOMAIN cs : i # j => Lower(cs[i]) # Lower(cs[j])}

\* the values of one column in n rows: valid identity numbers, then empty
\* values, then values that are no identity number
Content(n, valid, empty) ==
    [i \in 1..n |-> IF i <= valid THEN vIdNumber
                    ELSE IF i <= valid + empty THEN vEmpty ELSE vZA]

\* all valid, none valid, all but the last valid, one valid and one invalid
\* among empty values
ContentPool(n) ==
    {Content(n, n, 0), Content(n, 0, 0), Content(n, n - 1, 0), Content(n, 1, n - 2)}

\* the tables with the columns cs that have no rows or MaxSamples rows
MatchTables(cs) ==
    {<<>>} \cup
    {[i \in 1..MaxSamples |-> [c \in Range(cs) |-> content[c][i]]] :
        content \in [Range(cs) -> ContentPool(MaxSamples)]}

\* no column claimed, the first column claimed, every column claimed
ClaimedSets(cs) ==
    {{}, Range(cs)} \cup (IF cs = <<>> THEN {} ELSE {{cs[1]}})

InitMatch ==
    /\ \E f \in MatchFieldPool : schema = [schema |-> <<f>>, enums |-> Enums, lists |-> Lists]
    /\ columns \in MatchColumnLists
    /\ data \in MatchTables(columns)
    /\ matched_columns \in ClaimedSets(columns)
    /\ pc = "find_best_column_match"
    /\ fi = 1
    /\ field_matches = <<>>
    /\ matched_count = 0
    /\ matches_found = 0
    /\ match_score = RatInt(0)
    /\ ri = 0
    /\ row_validations = <<>>
    /\ report = None
    /\ IdleValues
    /\ IdleLoad

\* one call of find_best_column_match: the match it returns is kept under
\* the name of the field
FindBestColumnMatch ==
    /\ pc = "find_best_column_match"
    /\ \E best_match \in {find_best_column_match(schema.schema[fi].key, schema.schema[fi].val,
                                                  ColumnInfo(columns), data, schema,
                                                  matched_columns)} :
          IF IsRaised(best_match)
          THEN /\ pc' = "raised"
               /\ UNCHANGED field_matches
          ELSE /\ pc' = "returned"
               /\ field_matches' = <<Item(schema.schema[fi].key, best_match)>>
    /\ UNCHANGED <<Inputs, ValueVars, LoadVars, fi, matched_columns, matched_count,
                   matches_found, Results>>

NextMatch == FindBestColumnMatch

SpecMatch == InitMatch /\ [][NextMatch]_vars

-----------------------------------------------------------------------------
(* load_schemas and validate_data as whole calls *)

\* every file of the schemas directory, whatever its keys
EveryFile(files) == files

\* the files of the schemas directory that have the "schema" key, as the dict
\* name -> schema in the order os.listdir gives them
ValidSchemas(files) == SelectSeq(files, LAMBDA f : "schema" \in DOMAIN f.val)

\* the schemas read from the registry at every call
ReadRegistry(cache, reg) == IF ~reg.present THEN <<>> ELSE ValidSchemas(reg.files)

\* what load_schemas returns for the cache and the registry it finds
load_schemas(cache, reg) ==
    IF cache # <<>> THEN cache
    ELSE IF ~reg.present THEN <<>>
    ELSE ValidSchemas(reg.files)

\* _SCHEMA_CACHE after the call: the early returns leave it alone
CacheAfterLoad(cache, reg) ==
    IF cache # <<>> \/ ~reg.present \/ reg.files = <<>> THEN cache
    ELSE ValidSchemas(reg.files)

\* the while loop of match_schema for one second-pass field
RECURSIVE AdditionalLoop(_, _, _, _, _)
AdditionalNext(fr, f, cols, rows, sch, additional_match) ==
    IF IsRaised(additional_match) THEN Raised
    ELSE IF IsHit(additional_match)
    THEN AdditionalLoop(AdditionalField(fr, f, additional_match), f, cols, rows, sch)
    ELSE fr

AdditionalLoop(fr, f, cols, rows, sch) ==
    IF fr.matches_found >= MaxMatchesOf(f.val) THEN fr
    ELSE AdditionalNext(fr, f, cols, rows, sch, AdditionalMatch(fr, f, cols, rows, sch))

\* the first pass from field i on
RECURSIVE FirstPass(_, _, _, _, _)
FirstPass(fr, i, cols, rows, sch) ==
    IF IsRaised(fr) \/ i > Len(sch.schema) THEN fr
    ELSE IF MaxMatchesOf(sch.schema[i].val) > 1
    THEN FirstPass(fr, i + 1, cols, rows, sch)
    ELSE FirstPass(FirstPassField(fr, sch.schema[i], cols, rows, sch), i + 1,
                   cols, rows, sch)

SecondPassWhile(fr, f, cols, rows, sch) ==
    IF IsRaised(fr) THEN Raised ELSE AdditionalLoop(fr, f, cols, rows, sch)

\* the second pass from field i on
RECURSIVE SecondPass(_, _, _, _, _)
SecondPass(fr, i, cols, rows, sch) ==
    IF IsRaised(fr) \/ i > Len(sch.schema) THEN fr
    ELSE IF MaxMatchesOf(sch.schema[i].val) <= 1
    THEN SecondPass(fr, i + 1, cols, rows, sch)
    ELSE SecondPass(SecondPassWhile(SecondPassField(fr, sch.schema[i], cols, rows, sch),
                                    sch.schema[i], cols, rows, sch),
                    i + 1, cols, rows, sch)

Scored(sch, fr) ==
    IF IsRaised(fr) THEN Raised
    ELSE [score |-> MatchScore(sch, fr), matches |-> fr.field_matches]

\* (match_score, field_matches) of one call of match_schema
match_schema(sch, cols, rows) ==
    IF "schema" \notin DOMAIN sch
    THEN [score |-> RatInt(0), matches |-> <<>>]
    ELSE Scored(sch, SecondPass(FirstPass(NewFrame, 1, cols, rows, sch), 1,
                                cols, rows, sch))

\* match_schema for each loaded schema, in the order of the dict
SchemaScores(schemas, cols, rows) ==
    [i \in DOMAIN schemas |-> match_schema(schemas[i].val, cols, rows)]

\* the last of the highest scores
LastBest(scores) ==
    CHOOSE i \in DOMAIN scores :
        /\ \A j \in DOMAIN scores : RatLe(scores[j].score, scores[i].score)
        /\ \A j \in (i + 1)..Len(scores) : RatLt(scores[j].score, scores[i].score)

\* max(schema_scores, key=schema_scores.get): the first of the highest
BestIndex(scores) ==
    CHOOSE i \in DOMAIN scores :
        /\ \A j \in DOMAIN scores : RatLe(scores[j].score, scores[i].score)
        /\ \A j \in 1..(i - 1) : RatLt(scores[j].score, scores[i].score)

Selection(index, score, matches) == [index |-> index, score |-> score, matches |-> matches]

\* the branch without an existing mapping
SelectByScore(scores) ==
    IF \E i \in DOMAIN scores : IsRaised(scores[i]) THEN Raised
    ELSE Selection(BestIndex(scores), scores[BestIndex(scores)].score,
                   scores[BestIndex(scores)].matches)

\* type_info.get("type", "") of a mapping entry
TypeOf(entry) == Get(entry.val, "type", <<>>)

\* the schema the existing mapping is for: the first schema that has the type
\* of the first mapping entry some schema has, else the first schema
MappedSchemaIndex(schemas, mapping) ==
    LET known(m) == \E s \in DOMAIN schemas : HasKey(SchemaFields(schemas[s].val), TypeOf(m))
        has(ty, s) == HasKey(SchemaFields(schemas[s].val), ty)
    IN  IF \E m \in DOMAIN mapping : known(mapping[m])
        THEN LET m == CHOOSE k \in DOMAIN mapping :
                          known(mapping[k]) /\ \A j \in 1..(k - 1) : ~known(mapping[j])
             IN  CHOOSE s \in DOMAIN schemas :
                    has(TypeOf(mapping[m]), s) /\ \A j \in 1..(s - 1) : ~has(TypeOf(mapping[m]), j)
        ELSE 1

NotMappedValidation == [valid_count |-> 0, invalid_count |-> 0, valid_percentage |-> RatInt(0)]

\* the entry of best_matches for one schema field on the mapping branch
MappedEntry(f, mapping, rows, sch) ==
    LET names(m) == Get(m.val, "type", None) = f.key
        mapped_column ==
            IF \E k \in DOMAIN mapping : names(mapping[k])
            THEN mapping[CHOOSE k \in DOMAIN mapping :
                            names(mapping[k]) /\ \A j \in 1..(k - 1) : ~names(mapping[j])].key
            ELSE None
    IN  IF Truthy(mapped_column)
        THEN Match(f.key, mapped_column, "manual_mapping", RatInt(100),
                   validate_field_values(mapped_column, f.val, rows, sch))
        ELSE Match(f.key, None, "not_mapped", RatInt(0), NotMappedValidation)

MappedMatches(mapping, rows, sch) ==
    [i \in DOMAIN SchemaFields(sch) |->
        Item(SchemaFields(sch)[i].key, MappedEntry(SchemaFields(sch)[i], mapping, rows, sch))]

\* max(coverage_pct, 75.0), or 90.0 for a schema without fields
MappingScore(mapping, sch) ==
    LET mapped_types == {TypeOf(mapping[k]) : k \in DOMAIN mapping}
        schema_types == {SchemaFields(sch)[i].key : i \in DOMAIN SchemaFields(sch)}
        coverage_pct == Rat(Cardinality(mapped_types \cap schema_types) * 100,
                            Cardinality(schema_types))
    IN  IF schema_types # {}
        THEN (IF RatLt(coverage_pct, RatInt(75)) THEN RatInt(75) ELSE coverage_pct)
        ELSE RatInt(90)

MappedSelection(index, score, matches) ==
    IF \E i \in DOMAIN matches : IsRaised(matches[i].val.validation) THEN Raised
    ELSE Selection(index, score, matches)

\* the branch with an existing mapping
SelectByMapping(schemas, mapping, rows) ==
    MappedSelection(MappedSchemaIndex(schemas, mapping),
                    MappingScore(mapping, schemas[MappedSchemaIndex(schemas, mapping)].val),
                    MappedMatches(mapping, rows,
                                  schemas[MappedSchemaIndex(schemas, mapping)].val))

\* the selection by score, whatever the mapping file holds
SelectIgnoringMapping(schemas, mapping, cols, rows) ==
    SelectByScore(SchemaScores(schemas, cols, rows))

\* best_schema, best_score and best_matches of validate_data
Select(schemas, mapping, cols, rows) ==
    IF mapping # <<>>
    THEN SelectByMapping(schemas, mapping, rows)
    ELSE SelectByScore(SchemaScores(schemas, cols, rows))

\* the loop of validate_data over the rows
RowValidations(rows, sch, fm) ==
    [i \in DOMAIN rows |-> validate_row(rows[i], sch, fm)]

Numbered(validations) ==
    [i \in DOMAIN validations |->
        [row_id |-> i, valid |-> validations[i].valid, fields |-> validations[i].fields]]

\* schemas[best_schema].get("type", best_schema)
DocumentType(entry) == Get(entry.val, "type", entry.key)

-----------------------------------------------------------------------------
(* The process: the registry changes, load_schemas and validate_data are called *)

RegisterSchema ==
    [type   |-> "share_register",
     schema |-> <<Item(sAB, [validate_type |-> "SA_ID_NUMBER", required |-> TRUE])>>,
     enums  |-> Enums,
     lists  |-> Lists]

\* a schema whose required field no column name of the session resembles
LedgerSchema ==
    [schema |-> <<Item(sL, [validate_type |-> "SA_ID_NUMBER", required |-> TRUE]),
                  Item(sAB, [validate_type |-> "SA_ID_NUMBER"])>>,
     enums  |-> Enums,
     lists  |-> Lists]

FilePool ==
    {Item("register", RegisterSchema), Item("ledger", LedgerSchema),
     Item("broken", BrokenSchema)}

\* the schemas directory is absent, or holds some schema files
Registries ==
    {[present |-> FALSE, files |-> <<>>]}
    \cup {[present |-> TRUE, files |-> fs] : fs \in SeqsUpTo(FilePool, MaxFiles)}

\* no mapping file, a mapping of column P to field AB, a mapping of both
\* columns to field AB
MappingPool ==
    {<<>>, <<Item(sP, [type |-> sAB])>>,
     <<Item(sP, [type |-> sAB]), Item(sAB, [type |-> sAB])>>}

SessionColumns == <<sAB, sP>>

NoResults ==
    /\ schema = <<>>
    /\ field_matches = <<>>
    /\ match_score = RatInt(0)
    /\ row_validations = <<>>
    /\ report = None

InitLoad ==
    /\ registry \in Registries
    /\ SCHEMA_CACHE = <<>>
    /\ existing_mapping \in MappingPool
    /\ session_status = None
    /\ calls = 0
    /\ mapping_info = None
    /\ passes = <<>>
    /\ columns = SessionColumns
    /\ data \in Tables(columns)
    /\ pc = "idle"
    /\ NoResults
    /\ fi = 0
    /\ ri = 0
    /\ matched_columns = {}
    /\ matched_count = 0
    /\ matches_found = 0
    /\ IdleValues

Session == <<columns, data, existing_mapping>>

Unused == <<fi, ri, matched_columns, matched_count, matches_found, ValueVars, mapping_info, passes>>

CallResults == <<schema, field_matches, match_score, row_validations, report>>

\* schema files are added to or removed from the directory, or the directory
\* goes or comes
ChangeRegistry ==
    /\ \E reg \in Registries :
          /\ reg # registry
          /\ registry' = reg
    /\ UNCHANGED <<Session, SCHEMA_CACHE, session_status, calls, pc, CallResults, Unused>>

\* a call of load_schemas by another consumer of the schemas
LoadSchemas ==
    /\ SCHEMA_CACHE' = CacheAfterLoad(SCHEMA_CACHE, registry)
    /\ UNCHANGED <<Session, registry, session_status, calls, pc, CallResults, Unused>>

\* the call leaves by an exception: nothing is returned, no status is written
Abort(error) ==
    /\ pc' = error
    /\ schema' = <<>>
    /\ field_matches' = <<>>
    /\ match_score' = RatInt(0)
    /\ row_validations' = <<>>
    /\ report' = None
    /\ UNCHANGED session_status

\* the rows, the report and the session status for the selected schema
Complete(best, score, matches, validations) ==
    IF \E i \in DOMAIN validations : IsRaised(validations[i])
    THEN Abort("raised")
    ELSE /\ pc' = "done"
         /\ schema' = best.val
         /\ field_matches' = matches
         /\ match_score' = score
         /\ row_validations' = Numbered(validations)
         /\ report' = ValidationResults(best.val, score, validations)
         /\ session_status' = [document_type |-> DocumentType(best),
                               operation     |-> "VALIDATE_DATA"]

Detect(schemas, selection) ==
    IF IsRaised(selection)
    THEN Abort("raised")
    ELSE Complete(schemas[selection.index], selection.score, selection.matches,
                  RowValidations(data, schemas[selection.index].val, selection.matches))

\* one call of validate_data
ValidateData ==
    /\ calls < MaxCalls
    /\ calls' = calls + 1
    /\ SCHEMA_CACHE' = CacheAfterLoad(SCHEMA_CACHE, registry)
    /\ \E schemas \in {load_schemas(SCHEMA_CACHE, registry)} :
          IF schemas = <<>>
          THEN Abort("no_schemas")
          ELSE \E selection \in {Select(schemas, existing_mapping, ColumnInfo(columns), data)} :
                  Detect(schemas, selection)
    /\ UNCHANGED <<Session, registry, Unused>>

NextLoad == ChangeRegistry \/ LoadSchemas \/ ValidateData

SpecLoad == InitLoad /\ [][NextLoad]_vars

-----------------------------------------------------------------------------
(* generate_mapping_file as a whole call *)

\* the properties of the field definition that create_mapping_entry copies
\* when they are truthy
Copied(field_def) ==
    {k \in DOMAIN field_def \cap {"required", "description", "regex", "list", "distance", "enum"} :
        CASE k = "required" -> field_def[k] = TRUE
          [] k = "description" -> field_def[k] # <<>>
          [] k = "distance" -> field_def[k] # 0
          [] OTHER -> field_def[k] # ""}

create_mapping_entry(field_name, field_def) ==
    [k \in {"type", "validation", "validation_type", "slug"} \cup Copied(field_def) |->
        CASE k = "type" -> field_name
          [] k \in {"validation", "validation_type"} -> Get(field_def, "validate_type", "NONE")
          [] k = "slug" -> Get(field_def, "slug", <<field_name>>)
          [] OTHER -> field_def[k]]

\* the mapping dict column -> entry built from the first n entries of
\* field_matches; an entry without a column adds nothing
RECURSIVE NewMapping(_, _, _)
NewMapping(matches, schema_fields, n) ==
    IF n = 0 THEN <<>>
    ELSE IF Truthy(matches[n].val.column)
    THEN DictSet(NewMapping(matches, schema_fields, n - 1), matches[n].val.column,
                 create_mapping_entry(matches[n].key,
                                      IF HasKey(schema_fields, matches[n].key)
                                      THEN Lookup(schema_fields, matches[n].key)
                                      ELSE <<>>))
    ELSE NewMapping(matches, schema_fields, n - 1)

\* the required fields of the schema that no mapping entry has as its type
MissingRequired(schema_fields, mapping) ==
    SelectSeq([i \in DOMAIN schema_fields |-> schema_fields[i].key],
              LAMBDA field_name :
                  /\ Get(Lookup(schema_fields, field_name), "required", FALSE)
                  /\ ~\E k \in DOMAIN mapping : Get(mapping[k].val, "type", None) = field_name)

\* the fields of the schema an existing mapping is for
MappingFields(schemas, mapping) ==
    IF schemas = <<>> THEN <<>>
    ELSE SchemaFields(schemas[MappedSchemaIndex(schemas, mapping)].val)

\* the dict generate_mapping_file returns
MappingInfo(mapped_fields, schema_fields, all_columns) ==
    [mapped_fields    |-> mapped_fields,
     schema_fields    |-> schema_fields,
     missing_required |-> MissingRequired(schema_fields, mapped_fields),
     all_columns      |-> all_columns]

\* the detection loop: the first of the highest scores among the schemas
\* whose match_schema did not raise, 0 when there is none
RECURSIVE DetectBest(_, _, _)
DetectBest(scores, i, best_schema) ==
    IF i > Len(scores) THEN best_schema
    ELSE IF /\ ~IsRaised(scores[i])
            /\ (best_schema = 0 \/ RatGt(scores[i].score, scores[best_schema].score))
    THEN DetectBest(scores, i + 1, i)
    ELSE DetectBest(scores, i + 1, best_schema)

\* the session status after the document type check: the status as it is
\* when a type is recorded, else the detection on the list of column names
DetectDocumentType(status, schemas, cols, rows) ==
    LET scores == SchemaScores(schemas, ColumnList(cols), rows)
        best_schema == DetectBest(scores, 1, 0)
    IN  IF status.document_type # "" THEN status
        ELSE IF best_schema = 0 \/ RatLt(scores[best_schema].score, RatInt(1))
        THEN Raised
        ELSE [document_type |-> schemas[best_schema].key,
              operation     |-> "DETECT_DOCUMENT_TYPE"]

\* what validate_data gives its caller: the selection, or the exception
validate_data(schemas, mapping, cols, rows) ==
    IF schemas = <<>> THEN Raised
    ELSE LET selection == Select(schemas, mapping, ColumnInfo(cols), rows)
         IN  IF IsRaised(selection) THEN Raised
             ELSE IF \E i \in DOMAIN rows :
                        IsRaised(validate_row(rows[i], schemas[selection.index].val,
                                              selection.matches))
             THEN Raised
             ELSE selection

\* the session status is a record from the import on
StatusPool ==
    {[document_type |-> "", operation |-> "IMPORT_DATA"],
     [document_type |-> "share_register", operation |-> "VALIDATE_DATA"]}

InitMapping ==
    /\ registry \in Registries
    /\ SCHEMA_CACHE = <<>>
    /\ existing_mapping \in MappingPool
    /\ session_status \in StatusPool
    /\ calls = 0
    /\ mapping_info = None
    /\ passes = <<>>
    /\ columns = SessionColumns
    /\ data \in Tables(columns)
    /\ pc = "idle"
    /\ NoResults
    /\ fi = 0
    /\ ri = 0
    /\ matched_columns = {}
    /\ matched_count = 0
    /\ matches_found = 0
    /\ IdleValues

Untouched == <<fi, ri, matched_columns, matched_count, matches_found, ValueVars, passes>>

\* the call leaves by an exception after runs calls of validate_data
FailMapping(status, runs) ==
    /\ pc' = "failed"
    /\ mapping_info' = None
    /\ session_status' = status
    /\ calls' = calls + runs
    /\ UNCHANGED existing_mapping

\* the existing mapping is returned
LoadMapping(status, schemas) ==
    /\ pc' = "loaded"
    /\ mapping_info' = MappingInfo(existing_mapping, MappingFields(schemas, existing_mapping),
                                   columns)
    /\ session_status' = status
    /\ UNCHANGED <<existing_mapping, calls>>

\* a new mapping is built from the results of validate_data and saved
SaveMapping(best, mapping) ==
    /\ pc' = "generated"
    /\ mapping_info' = MappingInfo(mapping, SchemaFields(best.val), columns)
    /\ existing_mapping' = mapping
    /\ session_status' = [document_type |-> DocumentType(best),
                          operation     |-> "GENERATE_MAPPING"]
    /\ calls' = calls + 1

\* validate_data is run, and run again when it raises
Generate(status, schemas, selection) ==
    IF IsRaised(selection)
    THEN FailMapping(status, 2)
    ELSE SaveMapping(schemas[selection.index],
                     NewMapping(selection.matches,
                                SchemaFields(schemas[selection.index].val),
                                Len(selection.matches)))

Continue(status, schemas) ==
    IF IsRaised(status)
    THEN FailMapping(session_status, 0)
    ELSE IF existing_mapping # <<>>
    THEN LoadMapping(status, schemas)
    ELSE \E selection \in {validate_data(schemas, existing_mapping, columns, data)} :
            Generate(status, schemas, selection)

\* one call of generate_mapping_file
GenerateMappingFile ==
    /\ calls < MaxCalls
    /\ SCHEMA_CACHE' = CacheAfterLoad(SCHEMA_CACHE, registry)
    /\ \E schemas \in {load_schemas(SCHEMA_CACHE, registry)} :
       \E status \in {DetectDocumentType(session_status, schemas, columns, data)} :
          Continue(status, schemas)
    /\ UNCHANGED <<columns, data, registry, CallResults, Untouched>>

NextMapping == GenerateMappingFile \/ ValidateData

SpecMapping == InitMapping /\ [][NextMapping]_vars

-----------------------------------------------------------------------------
(* match_schema for several schemas on one dataset, the calls side by side *)

\* the locals of every call put together: one claimed set for all
SharedFrame(ps, i) ==
    [ps[i].frame EXCEPT
        !.matched_columns = UNION {IF IsRaised(ps[j].frame) THEN {}
                                   ELSE ps[j].frame.matched_columns : j \in DOMAIN ps}]

\* the locals of call i: matched_count, field_matches and matched_columns are
\* created by the call
LocalFrame(ps, i) == ps[i].frame

\* the loop bodies of call i in program order: the first pass over the
\* fields, then the second pass, a field that its pass skips leaves the
\* locals as they are
PassStep(sch, at, fr, cols, rows) ==
    LET n == Len(sch.schema)
        f == sch.schema[IF at <= n THEN at ELSE at - n]
    IN  IF at <= n
        THEN (IF MaxMatchesOf(f.val) > 1 THEN fr
              ELSE FirstPassField(fr, f, cols, rows, sch))
        ELSE (IF MaxMatchesOf(f.val) <= 1 THEN fr
              ELSE SecondPassWhile(SecondPassField(fr, f, cols, rows, sch), f,
                                   cols, rows, sch))

\* call i has returned, or has left by an exception
PassEnded(ps, i) ==
    IsRaised(ps[i].frame) \/ ps[i].at > 2 * Len(ps[i].sch.schema)

PassSchemaPool ==
    {RuledSchema, RepeatingSchema,
     [schema |-> <<Item(sAB, [validate_type |-> "SA_ID_NUMBER", required |-> TRUE]),
                   Item(sP, [max_matches |-> 2])>>,
      enums  |-> Enums,
      lists  |-> Lists]}

PassColumnPool == {RuledColumns, RepeatingColumns, <<sAB, sP>>}

InitPasses ==
    /\ columns \in PassColumnPool
    /\ data \in Tables(columns)
    /\ passes \in {[i \in DOMAIN ss |-> [sch |-> ss[i], at |-> 1, frame |-> NewFrame]] :
                      ss \in [1..2 -> PassSchemaPool]}
    /\ registry = [present |-> FALSE, files |-> <<>>]
    /\ SCHEMA_CACHE = <<>>
    /\ existing_mapping = <<>>
    /\ session_status = None
    /\ calls = 0
    /\ mapping_info = None
    /\ pc = "match_schemas"
    /\ NoResults
    /\ fi = 0
    /\ ri = 0
    /\ matched_columns = {}
    /\ matched_count = 0
    /\ matches_found = 0
    /\ IdleValues

\* call i runs its next loop body
StepPass ==
    /\ \E i \in DOMAIN passes :
          /\ ~PassEnded(passes, i)
          /\ \E fr \in {PassStep(passes[i].sch, passes[i].at, LocalFrame(passes, i),
                                 ColumnInfo(columns), data)} :
                passes' = [passes EXCEPT ![i] = [sch   |-> passes[i].sch,
                                                at    |-> passes[i].at + 1,
                                                frame |-> fr]]
    /\ UNCHANGED <<columns, data, pc, CallResults, registry, SCHEMA_CACHE,
                   existing_mapping, session_status, calls, mapping_info,
                   fi, ri, matched_columns, matched_count, matches_found, ValueVars>>

NextPasses == StepPass

SpecPasses == InitPasses /\ [][NextPasses]_vars

-----------------------------------------------------------------------------
(* Properties of one detection pass *)

\* match_schema has returned for a schema that has the "schema" key
Matched == pc \in {"validate_rows", "done"} /\ "schema" \in DOMAIN schema

\* the entry of field_matches under key has a non-null column
Bound(key) == HasKey(field_matches, key) /\ Lookup(field_matches, key).column # None

\* the declared fields of the schema that are required
RequiredFields == SelectSeq(schema.schema, LAMBDA f : Get(f.val, "required", FALSE))

\* no synthetic "{field}_{k}" key stands where a declared field has its entry
OwnEntries ==
    \A i \in DOMAIN schema.schema :
        HasKey(field_matches, schema.schema[i].key)
            => Lookup(field_matches, schema.schema[i].key).field = schema.schema[i].key

\* C1: for every schema and every dataset the match score match_schema
\* returns lies between 0 and 100 inclusive, also for a schema without
\* required fields that has fields with max_matches > 1.
C1_ScoreWithinRange ==
    Matched => RatLe(RatInt(0), match_score) /\ RatLe(match_score, RatInt(100))

\* C2: in the field-match map of one pass no two entries, declared or
\* synthetic, have the same non-null column, and every non-null column of an
\* entry is in the claimed set.
C2_DistinctColumns ==
    /\ \A i, j \in DOMAIN field_matches :
          (i # j /\ field_matches[i].val.column # None)
              => field_matches[i].val.column # field_matches[j].val.column
    /\ \A i \in DOMAIN field_matches :
          field_matches[i].val.column # None
              => field_matches[i].val.column \in matched_columns

\* a finished pass with a declared and a synthetic entry bound to two columns
C2_Witness ==
    /\ pc = "done"
    /\ \E i, j \in DOMAIN field_matches :
          /\ field_matches[i].key = sP
          /\ field_matches[j].key = sP_2
          /\ field_matches[j].val.field = sP
          /\ field_matches[i].val.column # None
          /\ field_matches[j].val.column # None

InScenario == schema \in ScenarioSchemas /\ columns = ScenarioColumns

\* the mapping the scenario of the shareholder register asks for
ScenarioMapping ==
    /\ Bound(sSHAREHOLDER_ID_NUMBER)
    /\ Lookup(field_matches, sSHAREHOLDER_ID_NUMBER).column = sID_NUMBER
    /\ Lookup(field_matches, sSHAREHOLDER_ID_NUMBER).match_type = "exact_slug"
    /\ Lookup(field_matches, sSHAREHOLDER_ID_NUMBER).score = RatInt(100)
    /\ Bound(sCOMPANY_NAME)
    /\ Lookup(field_matches, sCOMPANY_NAME).column = sCOMPANY
    /\ Lookup(field_matches, sCOMPANY_NAME).match_type = "exact_slug"
    /\ Lookup(field_matches, sCOMPANY_NAME).score = RatInt(100)
    /\ match_score = RatInt(100)

\* C3 as stated: with columns [ID_NUMBER, COMPANY], any rows and any values,
\* and the two fields in either order, match_schema maps both fields by
\* exact_slug with score 100 and returns 100.
C3_ScenarioAnyRows == (Matched /\ InScenario) => ScenarioMapping

\* C3 amended: the same mapping for the dataset with these columns and no
\* rows, where no column's content can decide a match.
C3_ScenarioNoRows == (Matched /\ InScenario /\ data = <<>>) => ScenarioMapping

C3_Witness == pc = "done" /\ InScenario /\ data = <<>> /\ ScenarioMapping

\* C4: for every required schema field without an entry with a non-null
\* column, every validated row has an outcome MISSING_COLUMN for the field
\* and is marked invalid, whatever the name of the field.
C4_MissingColumnReported ==
    Matched =>
        \A i \in DOMAIN RequiredFields : \A r \in DOMAIN row_validations :
            ~Bound(RequiredFields[i].key) =>
                /\ ~row_validations[r].valid
                /\ \E o \in DOMAIN row_validations[r].fields :
                      /\ row_validations[r].fields[o].field = RequiredFields[i].key
                      /\ row_validations[r].fields[o].status = "MISSING_COLUMN"

ValidRowCount == Cardinality({r \in DOMAIN row_validations : row_validations[r].valid})

\* C5: in the report valid_rows is the number of row results that are valid,
\* invalid_rows the number that are not, their sum is total_rows, the number
\* of rows, and success_rate is valid_rows / total_rows * 100.
C5_ReportCounts ==
    pc = "done" =>
        /\ report.total_rows = Len(data)
        /\ report.valid_rows = ValidRowCount
        /\ report.invalid_rows = Len(row_validations) - ValidRowCount
        /\ report.valid_rows + report.invalid_rows = report.total_rows
        /\ report.total_rows > 0
              => report.success_rate = Rat(report.valid_rows * 100, report.total_rows)

\* C6: a malformed regex pattern of a field does not abort the batch:
\* match_schema and validate_data never leave by an exception of the value
\* check.
C6_NoAbort == pc # "raised"

\* C10: the score is the share of the required fields whose own entry has a
\* non-null column when there is a required field, and otherwise the share
\* of the schema fields with a non-null match, times 100; stated for the
\* passes in which every declared field still has its own entry.
C10_ScoreFormula ==
    (Matched /\ OwnEntries) =>
        match_score =
            IF RequiredFields # <<>>
            THEN Rat(Cardinality({i \in DOMAIN RequiredFields :
                                     Bound(RequiredFields[i].key)}) * 100,
                     Len(RequiredFields))
            ELSE IF schema.schema # <<>>
            THEN Rat(Cardinality({i \in DOMAIN schema.schema :
                                     Bound(schema.schema[i].key)}) * 100,
                     Len(schema.schema))
            ELSE RatInt(0)

\* the keys of the entries match_schema recorded for the field f with a
\* non-null column
OwnKeys(f) ==
    {field_matches[i].key :
        i \in {j \in DOMAIN field_matches :
                  /\ field_matches[j].val.field = f.key
                  /\ field_matches[j].val.column # None}}

\* the field name, then "{field}_2" ... "{field}_{k}"
NumberedKeys(f, k) ==
    IF k = 0 THEN {}
    ELSE {f.key} \cup {f.key \o <<"_">> \o IntToStr(j) : j \in 2..k}

\* C14: for a field with max_matches = m > 1 match_schema records k <= m
\* entries with non-null columns, under the field name and then
\* "{field}_2" ... "{field}_{k}" without gaps, each with a column of its own;
\* the while loop never runs with matches_found above m.
C14_NumberedEntries ==
    /\ pc = "additional" => matches_found <= MaxMatchesOf(schema.schema[fi].val)
    /\ Matched =>
          \A i \in DOMAIN schema.schema :
              MaxMatchesOf(schema.schema[i].val) > 1 =>
                  /\ Cardinality(OwnKeys(schema.schema[i])) <= MaxMatchesOf(schema.schema[i].val)
                  /\ OwnKeys(schema.schema[i]) =
                         NumberedKeys(schema.schema[i], Cardinality(OwnKeys(schema.schema[i])))
                  /\ \A a, b \in DOMAIN field_matches :
                         (/\ a # b
                          /\ field_matches[a].val.field = schema.schema[i].key
                          /\ field_matches[a].val.column # None)
                             => field_matches[a].val.column # field_matches[b].val.column

\* the field may claim more than one column
IsMulti(f) == Get(f.val, "max_matches", 1) > 1

\* the keys of the single-match fields among the first n declared fields, in
\* declaration order
SingleKeys(n) ==
    LET singles == SelectSeq(SubSeq(schema.schema, 1, n), LAMBDA f : ~IsMulti(f))
    IN  [k \in DOMAIN singles |-> singles[k].key]

\* C15: within one pass of match_schema the fields with max_matches <= 1
\* are matched in declaration order before any field with max_matches > 1:
\* while the first pass runs, the entries and the claimed columns are those
\* of the single-match fields gone through so far, and when a multi-match
\* field is matched every single-match field has had its attempt.
C15_SinglesFirst ==
    /\ pc = "first_pass" =>
          /\ [k \in DOMAIN field_matches |-> field_matches[k].key] = SingleKeys(fi - 1)
          /\ \A k \in DOMAIN field_matches : field_matches[k].val.field = field_matches[k].key
          /\ matched_columns =
                 {field_matches[k].val.column : k \in DOMAIN field_matches} \ {None}
    /\ pc \in {"second_pass", "additional"} =>
          /\ \A i \in DOMAIN schema.schema :
                ~IsMulti(schema.schema[i]) => HasKey(field_matches, schema.schema[i].key)
          /\ SubSeq([k \in DOMAIN field_matches |-> field_matches[k].key],
                    1, Len(SingleKeys(Len(schema.schema))))
                 = SingleKeys(Len(schema.schema))

\* a multi-match field declared before a single-match field, matched after it
C15_Witness ==
    /\ pc = "additional"
    /\ Len(schema.schema) = 2
    /\ IsMulti(schema.schema[1])
    /\ ~IsMulti(schema.schema[2])
    /\ Len(field_matches) = 2
    /\ field_matches[1].key = schema.schema[2].key
    /\ field_matches[1].val.column # None
    /\ field_matches[2].key = schema.schema[1].key
    /\ field_matches[2].val.column # None

\* C22: for every row and every entry of the field-match map that has a
\* column, the synthetic "{field}_{k}" entries included, validate_row reports
\* MISMATCH for the column and marks the row invalid exactly when the value
\* of the row in that column fails the rule of the schema field that claimed
\* the column.
C22_MappedValuesChecked ==
    pc = "done" =>
        \A r \in DOMAIN data : \A e \in DOMAIN field_matches :
            Truthy(field_matches[e].val.column) =>
                LET column_name == field_matches[e].val.column
                    claimant == FieldDefOf(schema, field_matches[e].val.field)
                    fails == validate_single_value(Get(data[r], column_name, <<>>),
                                                   claimant, schema) = "invalid"
                    reported == \E o \in DOMAIN row_validations[r].fields :
                                   /\ row_validations[r].fields[o].column = column_name
                                   /\ row_validations[r].fields[o].status = "MISMATCH"
                IN  /\ fails <=> reported
                    /\ fails => ~row_validations[r].valid

\* C27: after match_schema the entry under the name of each declared field
\* is the match computed for that field, no synthetic "{field}_{k}" key of a
\* multi-match field stands in its place, and every column the pass claimed
\* is the column of an entry.
C27_DeclaredEntriesKept ==
    Matched =>
        /\ OwnEntries
        /\ \A c \in matched_columns :
              \E e \in DOMAIN field_matches : field_matches[e].val.column = c

\* the columns the entries of the field-match map have
MappedColumns ==
    {field_matches[e].val.column : e \in {k \in DOMAIN field_matches :
                                            Truthy(field_matches[k].val.column)}}

\* the outcomes of row r that report the check of a value
Checks(r) ==
    {o \in DOMAIN row_validations[r].fields :
        row_validations[r].fields[o].status \in {"MATCH", "MISMATCH"}}

\* C23: the valid flag validate_row returns is true exactly when the outcome
\* list holds no outcome with status MISMATCH or MISSING_COLUMN, and the list
\* holds exactly one MATCH or MISMATCH outcome for each mapped column.
C23_ValidFlag ==
    pc = "done" =>
        \A r \in DOMAIN row_validations :
            /\ row_validations[r].valid
                  <=> \A o \in DOMAIN row_validations[r].fields :
                         row_validations[r].fields[o].status
                             \notin {"MISMATCH", "MISSING_COLUMN"}
            /\ \A c \in MappedColumns :
                  Cardinality({o \in Checks(r) : row_validations[r].fields[o].column = c}) = 1
            /\ \A o \in Checks(r) : row_validations[r].fields[o].column \in MappedColumns

\* a row whose mapped value matches and that is invalid for a missing column
C23_Witness ==
    /\ pc = "done"
    /\ \E r \in DOMAIN row_validations :
          /\ ~row_validations[r].valid
          /\ \E o \in DOMAIN row_validations[r].fields :
                row_validations[r].fields[o].status = "MISSING_COLUMN"
          /\ Checks(r) # {}
          /\ \A o \in Checks(r) : row_validations[r].fields[o].status = "MATCH"

-----------------------------------------------------------------------------
(* Properties of the value checks *)

Required == Get(value_field, "required", FALSE)

ValueAt(i) == data[i][ValueColumn]

Summarized == pc = "validate_single_value" /\ ~IsRaised(value_summary)

\* C8: for every validate_type an empty value counts as valid when the field
\* is not required and as invalid when it is required, in the column summary
\* of validate_field_values and in validate_single_value.
C8_EmptyByRequired ==
    /\ (Summarized /\ Required) =>
          value_summary.valid_count
              <= Cardinality({i \in DOMAIN data : ValueAt(i) # <<>>})
    /\ (Summarized /\ ~Required) =>
          value_summary.total_count - value_summary.valid_count
              <= Cardinality({i \in DOMAIN data : ValueAt(i) # <<>>})
    /\ \A i \in DOMAIN value_verdicts :
          ValueAt(i) = <<>> =>
              value_verdicts[i] = IF Required THEN "invalid" ELSE "valid"

\* the rows whose value in the column is not empty
NonEmpty == {i \in DOMAIN data : ValueAt(i) # <<>>}

\* C24: for a field that is not required validate_field_values counts the
\* non-empty values of the column only: total_count is their number,
\* valid_count the number of those that pass the rule, and a column of empty
\* values has total_count 0 and valid_percentage 0, below the threshold of
\* the content-based pass.
C24_NonEmptyCounted ==
    (Summarized /\ ~Required) =>
        /\ value_summary.total_count = Cardinality(NonEmpty)
        /\ value_summary.valid_count =
              Cardinality({i \in NonEmpty :
                              FieldValueVerdict(ValueAt(i), value_field, schema) = "valid"})
        /\ NonEmpty = {} =>
              /\ value_summary.total_count = 0
              /\ value_summary.valid_percentage = RatInt(0)
              /\ ~RatGt(value_summary.valid_percentage, RatInt(50))

\* a column with an empty value, a value that passes and none else, for a
\* field with a rule that is not required
C24_Witness ==
    /\ Summarized
    /\ ~Required
    /\ Get(value_field, "validate_type", "NONE") = "SA_ID_NUMBER"
    /\ Len(data) = 2
    /\ Cardinality(NonEmpty) = 1
    /\ value_summary.total_count = 1
    /\ value_summary.valid_count = 1

\* the field definition without its description text
Undescribed(field_def) == [k \in DOMAIN field_def \ {"description"} |-> field_def[k]]

\* C28: the verdict of validate_single_value depends on the value, the
\* validate_type and the declared rule parameters only: the field definition
\* without its description text gives the same verdict for every value.
C28_DescriptionIgnored ==
    \A i \in DOMAIN value_verdicts :
        value_verdicts[i] = validate_single_value(ValueAt(i), Undescribed(value_field), schema)

\* C30: the validate_field_values of validator_patch.py returns the
\* valid_count, total_count and valid_percentage of the function of
\* core/validator.py for every column, field definition and dataset on which
\* the core function does not raise.
C30_PatchAgrees ==
    Summarized =>
        /\ patch_summary.valid_count = value_summary.valid_count
        /\ patch_summary.total_count = value_summary.total_count
        /\ patch_summary.valid_percentage = value_summary.valid_percentage

IsLevField ==
    /\ pc \in {"validate_field_values", "validate_single_value"}
    /\ Get(value_field, "validate_type", "NONE") = "LEV_DISTANCE"

\* the similarity of the value to a name or an alias of the referenced list
\* reaches the distance the field declares
MeetsDeclaredDistance(i) ==
    RatLe(RatInt(Get(value_field, "distance", 80)),
          BestListScore(ValueAt(i),
                        Get(Get(schema, "lists", <<>>),
                            Get(value_field, "list", ""), <<>>)))

\* C9: for a LEV_DISTANCE field a non-empty value is valid if and only if
\* its similarity to a name or an alias of the list is at least the declared
\* distance, with the same threshold in validate_field_values and in
\* validate_single_value.
C9_DeclaredDistance ==
    IsLevField =>
        /\ Summarized =>
              value_summary.valid_count =
                  Cardinality({i \in DOMAIN data :
                                  ValueAt(i) # <<>> /\ MeetsDeclaredDistance(i)})
        /\ \A i \in DOMAIN value_verdicts :
              ValueAt(i) # <<>> =>
                  (value_verdicts[i] = "valid" <=> MeetsDeclaredDistance(i))

-----------------------------------------------------------------------------
(* Properties of the process *)

\* the registry is missing, empty, or has no file with the "schema" key
NoValidSchema ==
    \/ ~registry.present
    \/ \A i \in DOMAIN registry.files : "schema" \notin DOMAIN registry.files[i].val

\* a step that is a call of validate_data
Called == calls' # calls

\* the call aborts: no schema selected, no row validated, no status written
Aborted ==
    /\ pc' = "no_schemas"
    /\ schema' = <<>>
    /\ field_matches' = <<>>
    /\ row_validations' = <<>>
    /\ report' = None
    /\ session_status' = session_status

\* C7 as stated: whenever the registry is missing, empty or without a valid
\* schema when validate_data is called, the pass aborts, after any sequence
\* of earlier load_schemas calls in the process.
C7_AbortAfterAnyLoads == [][(Called /\ NoValidSchema) => Aborted]_vars

\* C7 amended: the pass aborts when the registry is missing, empty or
\* without a valid schema at the call and no earlier load_schemas call of the
\* process has loaded a schema, so that the process-wide cache is empty.
C7_AbortWithEmptyCache ==
    [][(Called /\ NoValidSchema /\ SCHEMA_CACHE = <<>>) => Aborted]_vars

\* an aborted call on a directory that holds only files without the key
C7_Witness ==
    /\ pc = "no_schemas"
    /\ calls > 0
    /\ registry.present
    /\ registry.files # <<>>
    /\ NoValidSchema
    /\ SCHEMA_CACHE = <<>>

\* the schemas a call of validate_data gets from load_schemas
Loaded == load_schemas(SCHEMA_CACHE, registry)

\* a call of validate_data without a mapping file that returns a result
DetectedByScore == Called /\ existing_mapping = <<>> /\ pc' = "done"

\* the call returns schema i of the loaded schemas with its score and matches
Returns(i, scores) ==
    /\ schema' = Loaded[i].val
    /\ session_status'.document_type = DocumentType(Loaded[i])
    /\ match_score' = scores[i].score
    /\ report'.match_score = scores[i].score
    /\ field_matches' = scores[i].matches

\* score i is the maximum of the scores and the first that is
FirstMaximum(i, scores) ==
    /\ \A j \in DOMAIN scores : RatLe(scores[j].score, scores[i].score)
    /\ \A j \in 1..(i - 1) : scores[j].score # scores[i].score

\* C11: without an existing mapping and with at least one schema loaded,
\* validate_data selects one schema: its score is the maximum of the match
\* scores of all loaded schemas, also when every score is 0, it is the first
\* schema in iteration order that has this score, and the field matches
\* returned are those match_schema computed for it.
C11_SelectsFirstMaximum ==
    [][DetectedByScore =>
          \E i \in DOMAIN Loaded :
              /\ Returns(i, SchemaScores(Loaded, ColumnInfo(columns), data))
              /\ FirstMaximum(i, SchemaScores(Loaded, ColumnInfo(columns), data))]_vars

\* a finished call on two loaded schemas with equal scores that chose the first
C11_Witness ==
    /\ pc = "done"
    /\ existing_mapping = <<>>
    /\ Len(SCHEMA_CACHE) = 2
    /\ schema = SCHEMA_CACHE[1].val
    /\ match_score = match_schema(SCHEMA_CACHE[2].val, ColumnInfo(columns), data).score

\* a call of validate_data with a non-empty mapping file that returns a result
DetectedByMapping == Called /\ existing_mapping # <<>> /\ pc' = "done"

\* the mapping entries that name the field as their type, in mapping order
Naming(field_name) ==
    SelectSeq(existing_mapping, LAMBDA m : "type" \in DOMAIN m.val /\ m.val.type = field_name)

\* the entry the mapping gives the field: the first column that names it
IsManualEntry(entry, f) ==
    /\ entry.field = f.key
    /\ entry.column = Naming(f.key)[1].key
    /\ entry.match_type = "manual_mapping"
    /\ entry.score = RatInt(100)
    /\ entry.validation = validate_field_values(Naming(f.key)[1].key, f.val, data, schema')

IsUnmappedEntry(entry, f) ==
    /\ entry.field = f.key
    /\ entry.column = None
    /\ entry.score = RatInt(0)

\* C12: with a non-empty existing mapping validate_data does not run
\* match_schema: the field matches it returns have one entry for each field
\* of the chosen schema and no other; a field that a mapped column names as
\* its type has that column with match_type manual_mapping, score 100 and the
\* validation summary of the column, every other field has column null and
\* score 0.
C12_MappingShortCircuits ==
    [][DetectedByMapping =>
          /\ Len(field_matches') = Len(schema'.schema)
          /\ \A i \in DOMAIN schema'.schema :
                /\ field_matches'[i].key = schema'.schema[i].key
                /\ IF Naming(schema'.schema[i].key) # <<>>
                   THEN IsManualEntry(field_matches'[i].val, schema'.schema[i])
                   ELSE IsUnmappedEntry(field_matches'[i].val, schema'.schema[i])]_vars

\* a finished call on the ledger with the mapping of both columns to field
\* AB: field L is not mapped, field AB has the first column that names it
C12_Witness ==
    /\ pc = "done"
    /\ Len(existing_mapping) = 2
    /\ schema = LedgerSchema
    /\ Len(data) > 0
    /\ field_matches[1].val.match_type = "not_mapped"
    /\ field_matches[2].val.match_type = "manual_mapping"
    /\ field_matches[2].val.column = sP

-----------------------------------------------------------------------------
(* Properties of find_best_column_match *)

\* the call has ended, by a return or by an exception
Answered == pc \in {"returned", "raised"}

\* the match the call returned
Returned == field_matches[1].val

\* the field the call was made for
Wanted == schema.schema[1]

\* there is no column, or every column is claimed
NothingToMatch == Range(columns) \subseteq matched_columns

\* C13: with an empty column set, or with every column already claimed,
\* find_best_column_match returns column null, match_type none and score 0,
\* and raises no error, for every field definition.
C13_NoColumnNoMatch ==
    (Answered /\ NothingToMatch) =>
        /\ pc = "returned"
        /\ Returned.field = Wanted.key
        /\ Returned.column = None
        /\ Returned.match_type = "none"
        /\ Returned.score = RatInt(0)

\* the field with the malformed pattern, on a table with rows whose columns
\* are all claimed
C13_Witness ==
    /\ pc = "returned"
    /\ Wanted.key = sR
    /\ Len(columns) = 2
    /\ data # <<>>
    /\ NothingToMatch
    /\ Returned.match_type = "none"

\* C18: every match find_best_column_match returns, whatever step of the
\* cascade it comes from, the combined score of the fuzzy step included, has
\* a score from 0 to 100, and the score is above 0 exactly when the column is
\* not null.
C18_ScoreOfMatch ==
    pc = "returned" =>
        /\ RatLe(RatInt(0), Returned.score)
        /\ RatLe(Returned.score, RatInt(100))
        /\ RatGt(Returned.score, RatInt(0)) <=> Returned.column # None

\* a fuzzy match whose combined score mixes a similarity with a percentage
\* of valid values that is not 0
C18_Witness ==
    /\ pc = "returned"
    /\ Returned.match_type = "fuzzy"
    /\ Returned.validation.valid_count > 0
    /\ Returned.column # None

\* the unclaimed columns of the call, in column order
Free == Unclaimed(columns, matched_columns)

\* the validation of each unclaimed column against the field of the call
FreeValidations == Validations(Free, Wanted.val, data, schema)

\* every unclaimed column has a validation, none has raised
Validated == \A i \in DOMAIN Free : ~IsRaised(FreeValidations[i])

\* column i is the first of the unclaimed columns with the highest
\* valid_percentage
FirstHighest(i) ==
    /\ \A j \in DOMAIN Free :
          RatLe(FreeValidations[j].valid_percentage, FreeValidations[i].valid_percentage)
    /\ \A j \in 1..(i - 1) :
          RatLt(FreeValidations[j].valid_percentage, FreeValidations[i].valid_percentage)

\* C19: when some unclaimed column has a valid_percentage above 70 for the
\* field, find_best_column_match returns match_type content_validation for
\* the unclaimed column with the highest valid_percentage, the first such
\* column in column order, whatever the names of the columns are.
C19_ContentFirst ==
    (/\ Answered
     /\ Validated
     /\ \E i \in DOMAIN Free : RatGt(FreeValidations[i].valid_percentage, RatInt(70)))
        => /\ pc = "returned"
           /\ Returned.match_type = "content_validation"
           /\ \E i \in DOMAIN Free :
                 /\ FirstHighest(i)
                 /\ Returned.column = Free[i]
                 /\ Returned.score = FreeValidations[i].valid_percentage

\* two unclaimed columns whose values are all valid: the first is returned
\* although the second has the name of the field
C19_Witness ==
    /\ pc = "returned"
    /\ Wanted.key = sAB
    /\ Free = <<sA_B, sAB>>
    /\ Validated
    /\ \A i \in DOMAIN Free : FreeValidations[i].valid_percentage = RatInt(100)
    /\ Returned.match_type = "content_validation"
    /\ Returned.column = sA_B

\* the slugs of the field of the call
Slugs == Get(Wanted.val, "slug", <<Wanted.key>>)

\* the pairs of an unclaimed column and a slug whose similarity is above 60
Candidates ==
    {p \in (DOMAIN Free) \X (DOMAIN Slugs) : RatGt(Similarity(Slugs[p[2]], Free[p[1]]), RatInt(60))}

\* similarity * 0.3 + valid_percentage * 0.7 of a pair
Combined(p) ==
    RatMix(Similarity(Slugs[p[2]], Free[p[1]]), 3, FreeValidations[p[1]].valid_percentage, 7)

\* C20: a match of the fuzzy step is the column of a pair that has the
\* highest combined score among all pairs of an unclaimed column and a slug
\* with a similarity above 60, in whatever order the pairs are visited.
C20_HighestCombined ==
    (pc = "returned" /\ Returned.match_type = "fuzzy")
        => \E p \in Candidates :
              /\ Returned.column = Free[p[1]]
              /\ Returned.score = Combined(p)
              /\ \A q \in Candidates : RatLe(Combined(q), Combined(p))

-----------------------------------------------------------------------------
(* Properties of generate_mapping_file *)

\* the step is a call of generate_mapping_file
Generated == pc' \in {"loaded", "generated", "failed"}

\* C16: a call of generate_mapping_file that finds a non-empty mapping for
\* the session returns that mapping unchanged as mapped_fields, runs
\* validate_data not once and leaves the mapping file as it is, whether or
\* not a document type is recorded in the session status.
C16_ExistingMappingReturned ==
    [][(Generated /\ existing_mapping # <<>>)
          => /\ pc' = "loaded"
             /\ mapping_info'.mapped_fields = existing_mapping
             /\ calls' = calls
             /\ existing_mapping' = existing_mapping]_vars

\* the call finds no mapping and no recorded document type
Detecting == Generated /\ existing_mapping = <<>> /\ session_status.document_type = ""

\* the name of the schema the detection of generate_mapping_file selects for
\* the schemas, "" when it raises
DetectedName(schemas) ==
    LET status == DetectDocumentType(session_status, schemas, columns, data)
    IN  IF IsRaised(status) THEN "" ELSE status.document_type

\* the selection of validate_data for the schemas has a score of at least 1
Selects(schemas, selection) ==
    /\ schemas # <<>>
    /\ ~IsRaised(selection)
    /\ RatLe(RatInt(1), selection.score)

\* C29: without an existing mapping the detection inside
\* generate_mapping_file selects the schema that validate_data selects for
\* the same schemas and the same dataset, whenever the best score is at
\* least 1.
C29_SameSelection ==
    [][Detecting =>
          LET schemas == load_schemas(SCHEMA_CACHE, registry)
              selection == SelectByScore(SchemaScores(schemas, ColumnInfo(columns), data))
          IN  Selects(schemas, selection)
                  => DetectedName(schemas) = schemas[selection.index].key]_vars

-----------------------------------------------------------------------------
(* Properties of load_schemas *)

\* C17: once a call of load_schemas has loaded at least one valid schema,
\* the schema map it returned stays the cache, and every later call
\* returns that map, whatever the registry has become in between.
C17_CacheKept ==
    [][/\ (SCHEMA_CACHE = <<>> /\ SCHEMA_CACHE' # <<>>)
             => SCHEMA_CACHE' = ValidSchemas(registry.files)
       /\ SCHEMA_CACHE # <<>>
             => /\ SCHEMA_CACHE' = SCHEMA_CACHE
                /\ load_schemas(SCHEMA_CACHE', registry') = SCHEMA_CACHE]_vars

\* two calls of validate_data have been made, the schemas are cached and the
\* registry no longer holds them
C17_Witness ==
    /\ calls = 2
    /\ pc = "done"
    /\ SCHEMA_CACHE # <<>>
    /\ ReadRegistry(SCHEMA_CACHE, registry) # SCHEMA_CACHE
    /\ schema \in {SCHEMA_CACHE[i].val : i \in DOMAIN SCHEMA_CACHE}

-----------------------------------------------------------------------------
(* Properties of the name-based steps of find_best_column_match *)

\* x is the first element of the sequence s whose test holds
IsFirst(x, s, test) ==
    \E i \in DOMAIN s : s[i] = x /\ test[i] /\ \A j \in 1..(i - 1) : ~test[j]

\* the unclaimed columns that are candidates of each name-based step
SlugInFree == [k \in DOMAIN Slugs |-> InSeq(Slugs[k], Free)]

SameLower == [i \in DOMAIN Free |-> Lower(Free[i]) = Lower(Wanted.key)]

SlugLower ==
    [i \in DOMAIN Free |-> \E k \in DOMAIN Slugs : Lower(Free[i]) = Lower(Slugs[k])]

SameNormalized ==
    [i \in DOMAIN Free |->
        Strip(Lower(Free[i]), {"_", " "}) = Strip(Lower(Wanted.key), {"_", " "})]

Above(limit) ==
    [i \in DOMAIN Free |-> RatGt(FreeValidations[i].valid_percentage, RatInt(limit))]

Some(test) == \E i \in DOMAIN test : test[i]

\* the name-based result for column col_name
Named(col_name, match_type, score) ==
    /\ Returned.column = col_name
    /\ Returned.match_type = match_type
    /\ Returned.score = RatInt(score)

\* the returned match is the one of the first step that has a candidate
FirstStep ==
    IF InSeq(Wanted.key, Free) THEN Named(Wanted.key, "exact_field_name", 100)
    ELSE IF Some(SlugInFree)
    THEN Named(Returned.column, "exact_slug", 100) /\ IsFirst(Returned.column, Slugs, SlugInFree)
    ELSE IF Some(SameLower)
    THEN Named(Returned.column, "case_insensitive_field", 98)
         /\ IsFirst(Returned.column, Free, SameLower)
    ELSE IF Some(SlugLower)
    THEN Named(Returned.column, "case_insensitive", 95)
         /\ IsFirst(Returned.column, Free, SlugLower)
    ELSE IF Some(SameNormalized)
    THEN Named(Returned.column, "normalized_match", 90)
         /\ IsFirst(Returned.column, Free, SameNormalized)
    ELSE IF Candidates # {}
    THEN Returned.match_type = "fuzzy" /\ \E p \in Candidates : Returned.column = Free[p[1]]
    ELSE IF Some(Above(50))
    THEN Returned.match_type = "content_validation"
         /\ \E i \in DOMAIN Free : Above(50)[i] /\ Returned.column = Free[i]
    ELSE Returned.match_type = "none" /\ Returned.column = None

\* C21: when no unclaimed column has a valid_percentage above 70,
\* find_best_column_match returns the result of the first step that has a
\* candidate, in the order exact field name (100), exact slug in slug order
\* (100), case-insensitive field name (98), case-insensitive slug (95),
\* normalized field name (90), fuzzy, content match above 50, none.
C21_StepsInOrder ==
    (Answered /\ Validated /\ ~Some(Above(70))) => (pc = "returned" /\ FirstStep)

\* the normalized name wins although the fuzzy step has a candidate too
C21_Witness ==
    /\ pc = "returned"
    /\ Validated
    /\ ~Some(Above(70))
    /\ Returned.match_type = "normalized_match"
    /\ Candidates # {}

-----------------------------------------------------------------------------
(* Properties of match_schema calls side by side *)

\* C25: match_schema run for several schemas on one dataset, their loop
\* bodies in any interleaving, gives for every schema the score and the
\* field matches of a run on its own: no call reads or writes the claimed
\* columns of another.
C25_PassesIndependent ==
    \A i \in DOMAIN passes :
        PassEnded(passes, i)
            => Scored(passes[i].sch, passes[i].frame)
                   = match_schema(passes[i].sch, ColumnInfo(columns), data)

\* a call has returned while the other, with claimed columns of its own, is
\* still in its loops
C25_Witness ==
    /\ Len(passes) = 2
    /\ PassEnded(passes, 1)
    /\ ~IsRaised(passes[1].frame)
    /\ passes[1].frame.matched_columns # {}
    /\ ~PassEnded(passes, 2)
    /\ passes[2].frame.matched_columns \cap passes[1].frame.matched_columns # {}

-----------------------------------------------------------------------------
(* Properties of the existing-mapping path of validate_data *)

\* the fields of the chosen schema the score counts: the required ones, or
\* all when none is required
Counted == IF RequiredFields # <<>> THEN RequiredFields ELSE schema.schema

\* C26: on the existing-mapping path of validate_data the reported
\* match_score is the percentage of the required fields of the chosen schema,
\* or of all its fields when none is required, that are bound to a column.
C26_MappedScore ==
    (pc = "done" /\ existing_mapping # <<>> /\ Counted # <<>>)
        => match_score = Rat(100 * Cardinality({i \in DOMAIN Counted : Bound(Counted[i].key)}),
                             Len(Counted))

=============================================================================
